---------------------------- MODULE Spec2Model ----------------------------
(***************************************************************************)
(* Grid trading bot (src/grid_trading_bot.py): the grid state machine of   *)
(* GridTradingBot together with the exchange it talks to.                  *)
(*                                                                         *)
(* Units.  A price is an integer number of ticks (tick_size 0.01, so       *)
(* 200000 is 2000.00).  A quantity is an integer number of 0.0001 units,   *)
(* the finest step any precision policy of _round_quantity uses.           *)
(*                                                                         *)
(* Tasks.  The bot is one asyncio event loop: the code between two awaits  *)
(* runs atomically, and at an await of an exchange call any other ready    *)
(* task may run.  Each action below is one such atomic segment.  An        *)
(* exchange call is split in two: the exchange handles the request when    *)
(* the call is issued (the order is live, or gone, from then on) and the   *)
(* caller resumes with the response in a later step.                       *)
(***************************************************************************)
EXTENDS Integers, Sequences, FiniteSets, TLC

\* ---------------------------------------------------------------- bounds
\* How many orders the exchange fills in one run.
MaxFills == 2
\* How many breakthrough polls fetch a quote in one run.
MaxPolls == 2
\* How many exchange calls (place, cancel) fail in one run.
MaxFaults == 2
\* How many FILLED notifications are delivered a second time in one run.
MaxDups == 1
\* How many of these events, of all kinds together, happen in one run.
MaxEvents == 3
\* How many notifications other than the bot's own fills the exchange
\* sends in one run.
MaxNotices == 1

\* ------------------------------------------------------- configuration
\* --grid-upper, --grid-lower: the number of levels on each side.
GridUpperCount == 2
GridLowerCount == 2
\* --grid-spacing, in percent.
GridSpacing == 1
\* --per-order, in USDT.
GridPerOrderAmount == 50
\* --breakthrough-threshold, in tenths of a grid step (0.5 -> 5).
BreakthroughTenths == 5
\* Ticks per unit of price (tick_size 0.01).
TicksPerUnit == 100
\* Quantity units per whole token (the 0.0001 step).
QtyScale == 10000

None == 0

\* The (exchange, ticker) classes _round_quantity tells apart.
Policies == {"grvt_low", "grvt_mid", "grvt_high", "other"}

\* The classes the bot is run with here: one with a minimum quantity and
\* one without.
RunPolicies == {"grvt_low", "other"}

\* The runs followed here, as (policy, grid_dynamic_mode): the dynamic
\* grid under the policy with a minimum quantity, the static grid under
\* the policy without.
RunModes == {<<p, (p = "grvt_low")>> : p \in RunPolicies}

\* Bid/ask snapshots (in ticks) the exchange may answer at start-up.
InitQuotes == {<<199999, 200001>>, <<0, 200001>>}

\* ------------------------------------------------------ pure functions
\* exchange_client.round_to_tick: the nearest tick, halves up, of the
\* non-negative price num/den ticks.
RoundToTick(num, den) == (2 * num + den) \div (2 * den)

\* The step of a policy, in quantity units, and whether the policy raises
\* a rounded quantity to one step.
QuantityStep(policy) ==
    CASE policy = "grvt_low"  -> 10000
      [] policy = "grvt_mid"  -> 1000
      [] policy = "grvt_high" -> 100
      [] OTHER                -> 1

HasMinimum(policy) == policy \in {"grvt_low", "grvt_mid", "grvt_high"}

Max(a, b) == IF a >= b THEN a ELSE b

\* _round_quantity of the quantity num/den tokens: quantize(ROUND_DOWN) to
\* the policy's step, and for GRVT max(rounded, one step).
RoundQuantity(policy, num, den) ==
    LET step    == QuantityStep(policy)
        rounded == (((num * QtyScale) \div den) \div step) * step
    IN  IF HasMinimum(policy) THEN Max(rounded, step) ELSE rounded

\* grid_per_order_amount / price, rounded: the quantity of a level priced
\* `price` ticks (price > 0) when the amount per order is `amount` USDT.
LevelQuantity(policy, amount, price) ==
    RoundQuantity(policy, amount * TicksPerUnit, price)

GridLevel(price, side, quantity, index) ==
    [price |-> price, side |-> side, quantity |-> quantity,
     order_id |-> None, is_filled |-> FALSE, level_index |-> index]

\* The price of the i-th buy (sell) level around center with a spacing of
\* `spacing` percent, tick-rounded.
BuyPrice(center, spacing, i)  == RoundToTick(center * (100 - spacing * i), 100)
SellPrice(center, spacing, i) == RoundToTick(center * (100 + spacing * i), 100)

\* _calculate_grid_levels raises when a level's rounded price is <= 0.
LevelPricesValid(center, spacing, lower, upper) ==
    /\ \A i \in 1..lower : BuyPrice(center, spacing, i) > 0
    /\ \A i \in 1..upper : SellPrice(center, spacing, i) > 0

\* _calculate_grid_levels: the buys -1..-lower, then the sells 1..upper.
CalculateGridLevels(policy, center, spacing, lower, upper, amount) ==
    [i \in 1..lower |->
        GridLevel(BuyPrice(center, spacing, i), "buy",
                  LevelQuantity(policy, amount, BuyPrice(center, spacing, i)),
                  -i)]
    \o
    [i \in 1..upper |->
        GridLevel(SellPrice(center, spacing, i), "sell",
                  LevelQuantity(policy, amount, SellPrice(center, spacing, i)),
                  i)]

\* Variant of ValidGridConfig: a lower reduction of exactly 100 % passes.
ValidGridConfig_Lenient(spacing, upper, lower, amount) ==
    /\ spacing > 0
    /\ upper > 0 /\ lower > 0
    /\ amount > 0
    /\ spacing * lower <= 100

\* _validate_grid_config (grid_mode is set by grid_bot.py): the
\* configuration GridTradingBot accepts.
ValidGridConfig(spacing, upper, lower, amount) ==
    /\ spacing > 0
    /\ upper > 0 /\ lower > 0
    /\ amount > 0
    /\ spacing * lower < 100

\* The bid/ask check of _initialize_center_price and of the poll.
ValidQuote(q) == q[1] > 0 /\ q[2] > 0 /\ q[1] < q[2]


\* ------------------------------------------------------- Python floats
\* validate_basic_params computes with Python floats (IEEE 754 binary64,
\* round to nearest, ties to even).  A non-negative float is held here
\* exactly: an integer of any size is a sequence of limbs of 15 bits,
\* least significant first and without leading zero limbs, and the float
\* x is the integer x * 2^60.
LimbBase == 32768
LimbBits == 15
\* 2^60 is four limbs.
ScaleLimbs == 4
\* The significand of a binary64 float, in bits.
Significand == 53

RECURSIVE BigOf(_)
BigOf(n) == IF n = 0 THEN <<>> ELSE <<n % LimbBase>> \o BigOf(n \div LimbBase)

RECURSIVE BigTrim(_)
BigTrim(a) ==
    IF a = <<>> \/ a[Len(a)] # 0 THEN a ELSE BigTrim(SubSeq(a, 1, Len(a) - 1))

BigShiftLimbs(a, k) == IF a = <<>> THEN <<>> ELSE [i \in 1..k |-> 0] \o a

RECURSIVE BigAddCarry(_, _, _)
BigAddCarry(a, b, c) ==
    IF a = <<>> /\ b = <<>>
    THEN BigOf(c)
    ELSE LET x == IF a = <<>> THEN 0 ELSE Head(a)
             y == IF b = <<>> THEN 0 ELSE Head(b)
             s == x + y + c
         IN  <<s % LimbBase>>
                \o BigAddCarry(IF a = <<>> THEN a ELSE Tail(a),
                               IF b = <<>> THEN b ELSE Tail(b),
                               s \div LimbBase)

BigAdd(a, b) == BigAddCarry(a, b, 0)

\* a * m for one limb m.
RECURSIVE BigMulCarry(_, _, _)
BigMulCarry(a, m, c) ==
    IF a = <<>>
    THEN BigOf(c)
    ELSE LET v == Head(a) * m + c
         IN  <<v % LimbBase>> \o BigMulCarry(Tail(a), m, v \div LimbBase)

RECURSIVE BigMulLimbs(_, _)
BigMulLimbs(a, b) ==
    IF a = <<>>
    THEN <<>>
    ELSE BigAdd(BigMulCarry(b, Head(a), 0),
                BigShiftLimbs(BigTrim(BigMulLimbs(Tail(a), b)), 1))

BigMul(a, b) == BigTrim(BigMulLimbs(a, b))

BigLess(a, b) ==
    \/ Len(a) < Len(b)
    \/ /\ Len(a) = Len(b)
       /\ \E i \in DOMAIN a :
             /\ a[i] < b[i]
             /\ \A j \in DOMAIN a : j > i => a[j] = b[j]

\* Quotient and remainder of limbs 1..i of a, with rem carried in from the
\* limbs above, by a divisor d of at most one limb.
RECURSIVE BigDivFrom(_, _, _, _)
BigDivFrom(a, d, i, rem) ==
    IF i = 0
    THEN [q |-> <<>>, r |-> rem]
    ELSE LET cur  == rem * LimbBase + a[i]
             rest == BigDivFrom(a, d, i - 1, cur % d)
         IN  [q |-> Append(rest.q, cur \div d), r |-> rest.r]

BigDivSmall(a, d) ==
    LET qr == BigDivFrom(a, d, Len(a), 0)
    IN  [q |-> BigTrim(qr.q), r |-> qr.r]

\* Bit i of a, the least significant being bit 1, and the number of bits.
BitAt(a, i) ==
    (a[((i - 1) \div LimbBits) + 1] \div (2 ^ ((i - 1) % LimbBits))) % 2

BitLen(a) ==
    IF a = <<>>
    THEN 0
    ELSE LimbBits * (Len(a) - 1)
            + (CHOOSE k \in 1..LimbBits :
                  2 ^ (k - 1) <= a[Len(a)] /\ a[Len(a)] < 2 ^ k)

\* a with its r lowest bits cleared, and 2^r.
ClearBelow(a, r) ==
    [k \in DOMAIN a |->
        IF LimbBits * k <= r
        THEN 0
        ELSE IF LimbBits * (k - 1) >= r
        THEN a[k]
        ELSE a[k] - (a[k] % (2 ^ (r - LimbBits * (k - 1))))]

BigPow2(r) == BigShiftLimbs(<<2 ^ (r % LimbBits)>>, r \div LimbBits)

\* The float nearest to a (to a and a little more, when sticky): 53
\* significant bits are kept, a half goes to the even neighbour.
FloatRound(a, sticky) ==
    IF BitLen(a) <= Significand
    THEN a
    ELSE LET r    == BitLen(a) - Significand
             half == BitAt(a, r) = 1
             low  == sticky \/ \E i \in 1..(r - 1) : BitAt(a, i) = 1
             odd  == BitAt(a, r + 1) = 1
             kept == ClearBelow(a, r)
         IN  IF half /\ (low \/ odd) THEN BigAdd(kept, BigPow2(r)) ELSE kept

\* float("num/den"): the float a decimal literal (den is 1, 10 or 100)
\* is parsed to, and float(n) of an int.
FloatOf(num, den) ==
    LET qr == BigDivSmall(BigShiftLimbs(BigOf(num), ScaleLimbs), den)
    IN  FloatRound(qr.q, qr.r # 0)

FloatOfInt(n) == BigShiftLimbs(BigOf(n), ScaleLimbs)

\* x * y, rounded.
FloatMul(x, y) ==
    LET p == FloatRound(BigMul(x, y), FALSE)
    IN  IF p = <<>> THEN p ELSE SubSeq(p, ScaleLimbs + 1, Len(p))

FloatLess(x, y) == BigLess(x, y)

\* ------------------------------------------------ validate_basic_params
\* GridStrategyValidator.validate_basic_params(grid_spacing, grid_upper,
\* grid_lower, per_order, initial_balance) of src/grid_utils.py, on the
\* arguments the command line gives it (grid_bot.py parses --grid-spacing,
\* --per-order and --initial-balance with type=float): spacing, per_order
\* and balance are decimals with two places, given in hundredths.  The
\* result is the set of the rules that added an error.
SpacingErrors(spacing) ==
    IF spacing <= 0
    THEN {"spacing"}
    ELSE IF FloatLess(FloatOf(spacing, 100), FloatOf(1, 10))
    THEN {"spacing_small"}
    ELSE IF FloatLess(FloatOfInt(10), FloatOf(spacing, 100))
    THEN {"spacing_large"}
    ELSE {}

CountErrors(upper, lower) ==
    IF upper <= 0 \/ lower <= 0
    THEN {"count"}
    ELSE IF upper > 50 \/ lower > 50
    THEN {"count_large"}
    ELSE {}

PerOrderErrors(per_order) ==
    IF per_order <= 0
    THEN {"per_order"}
    ELSE IF FloatLess(FloatOf(per_order, 100), FloatOfInt(10))
    THEN {"per_order_small"}
    ELSE {}

BalanceErrors(balance) == IF balance <= 0 THEN {"balance"} ELSE {}

\* total_required = total_grids * per_order (lines 49-50).
TotalRequired(upper, lower, per_order) ==
    FloatMul(FloatOfInt(upper + lower), FloatOf(per_order, 100))

\* Lines 52-61: total_required > initial_balance, else
\* total_required < initial_balance * 0.1.
FundsErrors(upper, lower, per_order, balance) ==
    IF FloatLess(FloatOf(balance, 100), TotalRequired(upper, lower, per_order))
    THEN {"funds"}
    ELSE IF FloatLess(TotalRequired(upper, lower, per_order),
                      FloatMul(FloatOf(balance, 100), FloatOf(1, 10)))
    THEN {"utilization"}
    ELSE {}

ValidateBasicParams(spacing, upper, lower, per_order, balance) ==
    SpacingErrors(spacing) \cup CountErrors(upper, lower)
        \cup PerOrderErrors(per_order) \cup BalanceErrors(balance)
        \cup FundsErrors(upper, lower, per_order, balance)

\* ---------------------------------------------------------------- state
VARIABLES
    \* configuration, fixed at construction
    policy,               \* the class of (config.exchange, config.ticker)
    grid_dynamic_mode,    \* config.grid_dynamic_mode
    grid_spacing,         \* config.grid_spacing, in percent
    grid_upper_count,     \* config.grid_upper_count
    grid_lower_count,     \* config.grid_lower_count
    grid_per_order_amount,\* config.grid_per_order_amount, in USDT
    \* GridTradingBot
    center_price,         \* None until initialized
    grid_levels,          \* the list of GridLevel
    active_grid_orders,   \* order_id -> GridLevel
    total_profit,
    grid_trades_count,
    grid_moves_count,
    \* the task running run(): its position and its locals
    pc,
    place_idx,            \* the level _initialize_all_grids is placing
    success_count,
    direction,            \* "UP" / "DOWN" inside _execute_grid_move
    order_id_to_cancel,
    cancelled_count,
    added_count,
    new_level,            \* the level a move is placing
    result,               \* the response the task resumes with
    quote,                \* the bid/ask the poll resumes with
    raised,               \* an exception is leaving, or has left, run()
    shutdown_reason,      \* the reason graceful_shutdown was called with
    disconnect,           \* how the disconnect of run()'s finally block ended
    \* the tasks created for _handle_grid_order_fill, in creation order
    tasks,
    \* the exchange
    book,                 \* order id -> the order resting under it
    next_id,              \* the next order id the exchange hands out
    inbox,                \* order-update notifications not yet delivered
    market,               \* the bid/ask it answers at start-up
    \* what the environment has done so far
    fills, polls, faults, dups,
    notices,              \* the other notifications the exchange has sent
    \* grid_bot.py, before the bot exists
    args,                 \* the parsed command-line arguments
    errors                \* what validate_basic_params returned for them

config_vars == <<policy, grid_dynamic_mode, grid_spacing, grid_upper_count,
                 grid_lower_count, grid_per_order_amount, market>>
grid_vars   == <<center_price, grid_levels, active_grid_orders,
                 total_profit, grid_trades_count, grid_moves_count>>
move_vars   == <<direction, order_id_to_cancel, cancelled_count,
                 added_count, new_level>>
init_vars   == <<place_idx, success_count>>
end_vars    == <<shutdown_reason, disconnect>>
cli_vars    == <<args, errors>>
exchange_vars == <<book, next_id, faults>>
vars == <<policy, grid_dynamic_mode, grid_spacing, grid_upper_count,
          grid_lower_count, grid_per_order_amount, market,
          center_price, grid_levels,
          active_grid_orders, total_profit, grid_trades_count,
          grid_moves_count, pc, place_idx, success_count, direction,
          order_id_to_cancel, cancelled_count, added_count, new_level,
          result, quote, raised, shutdown_reason, disconnect, tasks, book,
          next_id, inbox, fills, polls, faults, dups, notices, args, errors>>

\* The environment may still act: fill an order, answer a poll, fail a
\* call, repeat a notification, send another notification, reach the stop
\* or the pause price, or interrupt the bot.
EventsLeft == fills + polls + faults + dups + notices < MaxEvents

NoLevel  == GridLevel(0, "none", 0, 0)
NoResult == [success |-> FALSE, order_id |-> None, raised |-> FALSE]
NoQuote  == <<0, 0>>

\* The reasons graceful_shutdown is called with: the stop price, the
\* user's interruption, and "Critical error: {e}" for an exception e.
\* config.contract_id, and the contract of another market.
OwnContract   == "own"
OtherContract == "other"

\* The bot was constructed without the command line.
NoArgs == [grid_spacing |-> 0, grid_upper |-> 0, grid_lower |-> 0,
           per_order |-> 0, initial_balance |-> 0]

NoReason   == <<"none", "none">>
StopReason == <<"stop price triggered", "none">>
UserReason == <<"User interruption (Ctrl+C)", "none">>

\* run() has left its try block: it is in its finally block or has ended.
RunEnded == pc \in {"finally", "stopped"}

\* f without the key k.
Without(f, k) == [x \in DOMAIN f \ {k} |-> f[x]]

\* s without its i-th element.
RemoveAt(s, i) == [j \in 1..(Len(s) - 1) |-> IF j < i THEN s[j] ELSE s[j + 1]]

Init ==
    /\ policy \in RunPolicies
    /\ grid_dynamic_mode \in {m \in BOOLEAN : <<policy, m>> \in RunModes}
    /\ grid_spacing = GridSpacing
    /\ grid_upper_count = GridUpperCount
    /\ grid_lower_count = GridLowerCount
    /\ grid_per_order_amount = GridPerOrderAmount
    /\ market \in InitQuotes
    /\ center_price = None
    /\ grid_levels = <<>>
    /\ active_grid_orders = <<>>
    /\ total_profit = 0
    /\ grid_trades_count = 0
    /\ grid_moves_count = 0
    /\ pc = "init_center"
    /\ place_idx = 0
    /\ success_count = 0
    /\ direction = "none"
    /\ order_id_to_cancel = None
    /\ cancelled_count = 0
    /\ added_count = 0
    /\ new_level = NoLevel
    /\ result = NoResult
    /\ quote = NoQuote
    /\ raised = FALSE
    /\ shutdown_reason = NoReason
    /\ disconnect = "none"
    /\ tasks = <<>>
    /\ book = <<>>
    /\ next_id = 1
    /\ inbox = {}
    /\ fills = 0
    /\ polls = 0
    /\ faults = 0
    /\ dups = 0
    /\ notices = 0
    /\ args = NoArgs
    /\ errors = {}

\* ------------------------------------------------------------- exchange
\* place_close_order(contract_id, quantity, price, side) as the exchange
\* handles it: every outcome, as the response the caller will resume with
\* and the exchange's state after the call.  The order is accepted under
\* a fresh id, or the call fails: an unsuccessful result, or an exception.
ExchangePlace(level) ==
    { [result  |-> [success |-> TRUE, order_id |-> next_id, raised |-> FALSE],
       book    |-> (next_id :> [price |-> level.price, side |-> level.side,
                               quantity |-> level.quantity]) @@ book,
       next_id |-> next_id + 1,
       faults  |-> faults] }
    \cup
    { [result  |-> [success |-> FALSE, order_id |-> None, raised |-> r],
       book    |-> book,
       next_id |-> next_id,
       faults  |-> faults + 1] : r \in {b \in BOOLEAN : faults < MaxFaults /\ EventsLeft} }

\* cancel_order(order_id) as the exchange handles it: a resting order is
\* taken off the book, or the call fails; an order that no longer rests
\* cannot be cancelled.
ExchangeCancel(id) ==
    { [result  |-> [success |-> TRUE, order_id |-> id, raised |-> FALSE],
       book    |-> Without(book, id),
       next_id |-> next_id,
       faults  |-> faults] : x \in {y \in {id} : y \in DOMAIN book} }
    \cup
    { [result  |-> [success |-> FALSE, order_id |-> id, raised |-> r],
       book    |-> book,
       next_id |-> next_id,
       faults  |-> faults + 1] : r \in {b \in BOOLEAN : faults < MaxFaults /\ EventsLeft} }
    \cup
    { [result  |-> [success |-> FALSE, order_id |-> id, raised |-> FALSE],
       book    |-> book,
       next_id |-> next_id,
       faults  |-> faults] : x \in {y \in {id} : y \notin DOMAIN book} }

\* The exchange after a call with outcome e.
Exchanged(e) ==
    /\ book' = e.book
    /\ next_id' = e.next_id
    /\ faults' = e.faults

\* The message the order-update callback is called with, for the order
\* resting under id: contract_id, order_id, status, filled_size, price.
OrderUpdate(contract, id, status) ==
    [contract_id |-> contract, order_id |-> id, status |-> status,
     price |-> book[id].price, filled_size |-> book[id].quantity]

\* The exchange fills a resting order and sends its FILLED notification,
\* which carries the order's price and size.
ExchangeFill(id) ==
    /\ ~RunEnded
    /\ fills < MaxFills
    /\ EventsLeft
    /\ id \in DOMAIN book
    /\ book' = Without(book, id)
    /\ inbox' = inbox \cup {OrderUpdate(OwnContract, id, "FILLED")}
    /\ fills' = fills + 1
    /\ UNCHANGED <<config_vars, cli_vars, notices, end_vars, grid_vars, pc, init_vars, move_vars, result,
                   quote, raised, tasks, next_id, polls, faults, dups>>

\* Variant of CountSuccess: every call is counted, whatever it returned.
CountSuccess_Attempts(count, res) == count + 1

\* `cancelled_count += 1`, `added_count += 1` and `success_count += 1`:
\* each under the test of the call's success.
CountSuccess(count, res) == IF res.success THEN count + 1 ELSE count

\* ----------------------------------------------------- _place_grid_order
\* _place_grid_order after the call returned: on success the level is
\* bound to the order id and entered in active_grid_orders.
BoundLevel(level, res) == [level EXCEPT !.order_id = res.order_id]

\* Variant of PlaceGridOrder: the level is entered whatever the call
\* returned.
PlaceGridOrder_Always(active, level, res) ==
    (res.order_id :> BoundLevel(level, res)) @@ active

PlaceGridOrder(active, level, res) ==
    IF res.success
    THEN (res.order_id :> BoundLevel(level, res)) @@ active
    ELSE active


\* ---------------------------------------------------------------- start
\* Variant of Stopped: the loop goes on after the shutdown.
Stopped_KeepsRunning(exc) ==
    /\ pc' = "loop"
    /\ raised' = exc

\* The bot has ended: run() returns (exc = FALSE) or an exception leaves
\* it, or the constructor (exc = TRUE).
Stopped(exc) ==
    /\ pc' = "stopped"
    /\ raised' = exc

\* Variant of EnterFinally: the `break` is missing, and the loop goes on to
\* its next iteration.
EnterFinally_NoBreak(exc) ==
    /\ pc' = "monitor"
    /\ raised' = exc
    /\ disconnect' = disconnect

\* Variant of CriticalReason: graceful_shutdown is called without the
\* exception, and logs its default reason.
CriticalReason_Unknown(e) == <<"Unknown", "none">>

\* f"Critical error: {e}" (line 857): the reason run() gives
\* graceful_shutdown for the exception e.
CriticalReason(e) == <<"Critical error", e>>

\* TradingBot.graceful_shutdown(reason), the base class's: the shutdown
\* is recorded with its reason; the grid is not its concern.
BaseGracefulShutdown(reason) == shutdown_reason' = reason

\* Variant of GracefulShutdown: the commented-out call of
\* _cancel_all_grid_orders is made, and forgets every order.
GracefulShutdown_CancelsAll(reason) ==
    /\ active_grid_orders' = <<>>
    /\ BaseGracefulShutdown(reason)

\* GridTradingBot.graceful_shutdown(reason): the reason and the final
\* counters are logged and the base class is left to shut down; the call
\* of _cancel_all_grid_orders is commented out, so no order is cancelled
\* or forgotten.
GracefulShutdown(reason) ==
    /\ active_grid_orders' = active_grid_orders
    /\ BaseGracefulShutdown(reason)

\* run() leaves its try block, after graceful_shutdown where an except
\* clause or the stop gate called it, and enters its finally block: with
\* an exception in flight (exc = TRUE, the `raise` of line 858) or none.
\* The tasks of the fill handlers are not followed beyond this point.
EnterFinally(exc) ==
    /\ pc' = "finally"
    /\ raised' = exc
    /\ disconnect' = disconnect

\* The exception of the step is caught by `except Exception` (lines
\* 854-858): graceful_shutdown with the exception's message, then raise.
CriticalError(e) ==
    /\ GracefulShutdown(CriticalReason(e))
    /\ EnterFinally(TRUE)

\* GridTradingBot(config): _validate_grid_config raises ValueError on a
\* configuration it does not accept, and no bot exists; otherwise the bot
\* is constructed and run() can start.
Construct ==
    /\ pc = "new"
    /\ IF ValidGridConfig(grid_spacing, grid_upper_count, grid_lower_count,
                          grid_per_order_amount)
       THEN pc' = "init_center" /\ raised' = raised
       ELSE Stopped(TRUE)
    /\ UNCHANGED <<config_vars, cli_vars, notices, end_vars, grid_vars, init_vars, move_vars, result,
                   quote, tasks, book, next_id, inbox,
                   fills, polls, faults, dups>>

\* The levels _calculate_grid_levels would price around center are all
\* above 0 (and center is set).
LevelsCalculable(center) ==
    /\ center # None
    /\ LevelPricesValid(center, grid_spacing, grid_lower_count,
                        grid_upper_count)

\* _initialize_center_price with an invalid snapshot, or
\* _calculate_grid_levels with a level priced <= 0: the exception reaches
\* run(), which shuts down and re-raises.  grid_levels is not assigned.
InitializeFails ==
    /\ pc = "init_center"
    /\ ~(ValidQuote(market)
            /\ LevelsCalculable(RoundToTick(market[1] + market[2], 2)))
    /\ center_price' = IF ValidQuote(market)
                       THEN RoundToTick(market[1] + market[2], 2)
                       ELSE center_price
    /\ CriticalError(IF ValidQuote(market)
                     THEN "Grid price <= 0"
                     ELSE "Invalid bid/ask data")
    /\ UNCHANGED <<config_vars, cli_vars, notices, grid_levels, total_profit,
                   grid_trades_count, grid_moves_count, init_vars, move_vars,
                   result, quote, tasks, book, next_id, inbox,
                   fills, polls, faults, dups>>

\* _initialize_center_price, then _initialize_all_grids up to its first
\* placement call: the center is the tick-rounded mid price, the levels
\* are calculated and the first one is sent to the exchange.
InitializeGrid ==
    /\ pc = "init_center"
    /\ ValidQuote(market)
    /\ LevelsCalculable(RoundToTick(market[1] + market[2], 2))
    /\ center_price' = RoundToTick(market[1] + market[2], 2)
    /\ grid_levels' = CalculateGridLevels(policy, center_price', grid_spacing,
                                          grid_lower_count, grid_upper_count,
                                          grid_per_order_amount)
    /\ place_idx' = 1
    /\ success_count' = 0
    /\ \E e \in ExchangePlace(grid_levels'[1]) :
          /\ Exchanged(e)
          /\ result' = e.result
    /\ pc' = "init_place"
    /\ UNCHANGED <<config_vars, cli_vars, notices, end_vars, active_grid_orders, total_profit,
                   grid_trades_count, grid_moves_count, move_vars, quote,
                   raised, tasks, inbox, fills, polls, dups>>

\* _initialize_all_grids resumes with the answer to the placement of level
\* place_idx: _place_grid_order binds the level on success.  After the
\* 0.1 s pause it sends the next level, or, after the last level, ends:
\* with no order placed at all it raises, and run() shuts down.
\* (The pause is not a step of its own: sending the next request changes
\* only the exchange, which no other task of the bot reads.)
InitPlaceBound ==
    [grid_levels EXCEPT ![place_idx] =
        IF result.success THEN BoundLevel(@, result) ELSE @]

InitPlaceNext ==
    /\ pc = "init_place"
    /\ place_idx < Len(grid_levels)
    /\ grid_levels' = InitPlaceBound
    /\ active_grid_orders' =
          PlaceGridOrder(active_grid_orders, grid_levels[place_idx], result)
    /\ success_count' = CountSuccess(success_count, result)
    /\ place_idx' = place_idx + 1
    /\ \E e \in ExchangePlace(grid_levels[place_idx + 1]) :
          /\ Exchanged(e)
          /\ result' = e.result
    /\ UNCHANGED <<config_vars, cli_vars, notices, end_vars, center_price, total_profit, grid_trades_count,
                   grid_moves_count, pc, move_vars, quote, raised, tasks,
                   inbox, fills, polls, dups>>

InitPlaceLast ==
    /\ pc = "init_place"
    /\ place_idx = Len(grid_levels)
    /\ grid_levels' = InitPlaceBound
    /\ success_count' = CountSuccess(success_count, result)
    /\ result' = NoResult
    /\ IF success_count' = 0
       THEN CriticalError("Failed to place any grid orders")
       ELSE /\ active_grid_orders' =
                  PlaceGridOrder(active_grid_orders, grid_levels[place_idx],
                                 result)
            /\ pc' = "monitor"
            /\ raised' = raised
            /\ UNCHANGED end_vars
    /\ UNCHANGED <<config_vars, cli_vars, notices, center_price, total_profit, grid_trades_count,
                   grid_moves_count, place_idx, move_vars, quote, tasks,
                   book, next_id, inbox, fills, polls, faults, dups>>


\* ------------------------------------------------ order-update callback
\* The task grid_order_update_handler creates, running
\* _handle_grid_order_fill(order_id, price, filled_size).
NewTask(m) ==
    [order_id |-> m.order_id, filled_price |-> m.price,
     filled_size |-> m.filled_size, stage |-> "new",
     opposite |-> NoLevel, result |-> NoResult]

\* Variant of GridOrderUpdateHandler: the status is not looked at.
GridOrderUpdateHandler_AnyStatus(m) ==
    IF m.contract_id # OwnContract
    THEN tasks
    ELSE IF m.order_id \in DOMAIN active_grid_orders
         THEN Append(tasks, NewTask(m))
         ELSE tasks

\* The callback returns at once on a message of another contract
\* (line 693), and creates the task only for the status FILLED (line 702).
GridOrderUpdateHandler(m) ==
    IF m.contract_id # OwnContract
    THEN tasks
    ELSE IF m.status = "FILLED" /\ m.order_id \in DOMAIN active_grid_orders
         THEN Append(tasks, NewTask(m))
         ELSE tasks

\* The exchange delivers a notification: the callback is called with it.
DeliverFilled(m) ==
    /\ ~RunEnded
    /\ m \in inbox
    /\ tasks' = GridOrderUpdateHandler(m)
    /\ inbox' = inbox \ {m}
    /\ UNCHANGED <<config_vars, cli_vars, notices, end_vars, grid_vars, pc, init_vars, move_vars, result,
                   quote, raised, book, next_id, fills, polls, faults, dups>>

\* The exchange delivers a notification and will deliver it again.
DeliverFilledTwice(m) ==
    /\ ~RunEnded
    /\ m \in inbox
    /\ dups < MaxDups
    /\ EventsLeft
    /\ dups' = dups + 1
    /\ tasks' = GridOrderUpdateHandler(m)
    /\ UNCHANGED <<config_vars, cli_vars, notices, end_vars, grid_vars, pc, init_vars, move_vars, result,
                   quote, raised, book, next_id, inbox, fills, polls, faults>>

\* ---------------------------------------------- _handle_grid_order_fill
\* The order id is in active_grid_orders (line 291).
IsActiveOrder(id) == id \in DOMAIN active_grid_orders

\* grid_trades_count after the handler ran for an order id that was
\* (known) or was not in active_grid_orders: the early return of line 292
\* leaves it, line 315 adds one.
\* Variants of TradesAfterFill: the trade is counted before the order id is
\* looked up; the trade is counted only when the opposite order was placed.
TradesAfterFill_CountsUnknown(known, placed, count) == count + 1

TradesAfterFill_OnlyWhenPlaced(known, placed, count) ==
    IF known /\ placed THEN count + 1 ELSE count

\* Variant of TradesAfterFill: the count starts again with every handler.
TradesAfterFill_Restarts(known, placed, count) == IF known THEN 1 ELSE 0

\* `placed` tells whether the opposite order was placed: it does not count.
TradesAfterFill(known, placed, count) == IF known THEN count + 1 ELSE count

\* Variant of RemoveFilled: the filled order is not removed before the
\* placement is awaited.
RemoveFilled_Late(active, id) == active

\* del self.active_grid_orders[filled_order_id] (line 304), before the
\* placement of the opposite order is awaited.
RemoveFilled(active, id) == Without(active, id)

\* Variant of OppositeAfterBuy: the refill policy, which re-arms the filled
\* level on its own side.
OppositeAfterBuy_Refill(filled_grid, filled_price, filled_size) ==
    GridLevel(filled_grid.price, filled_grid.side,
              LevelQuantity(policy, grid_per_order_amount, filled_grid.price), filled_grid.level_index)

\* The level _place_opposite_order_after_buy builds: a sell at the fill
\* price with the filled size, on the filled level's index.
OppositeAfterBuy(filled_grid, filled_price, filled_size) ==
    GridLevel(filled_price, "sell", filled_size, filled_grid.level_index)

\* The level _place_opposite_order_after_sell builds: a buy at the fill
\* price with a quantity recomputed from the per-order amount.
OppositeAfterSell(filled_grid, filled_price, filled_size) ==
    GridLevel(filled_price, "buy", LevelQuantity(policy, grid_per_order_amount, filled_price),
              filled_grid.level_index)

OppositeLevel(filled_grid, filled_price, filled_size) ==
    IF filled_grid.side = "buy"
    THEN OppositeAfterBuy(filled_grid, filled_price, filled_size)
    ELSE OppositeAfterSell(filled_grid, filled_price, filled_size)

\* filled_grid.is_filled = True, seen through grid_levels when the filled
\* level is one of its entries.
MarkFilled(levels, id) ==
    [k \in DOMAIN levels |->
        IF levels[k].order_id = id
        THEN [levels[k] EXCEPT !.is_filled = TRUE]
        ELSE levels[k]]

\* The handler runs for an order id that is not in active_grid_orders and
\* returns at once.
HandleFillUnknown(i) ==
    /\ ~RunEnded
    /\ i \in DOMAIN tasks
    /\ tasks[i].stage = "new"
    /\ ~IsActiveOrder(tasks[i].order_id)
    /\ tasks' = RemoveAt(tasks, i)
    /\ grid_trades_count' = TradesAfterFill(FALSE, FALSE, grid_trades_count)
    /\ UNCHANGED <<config_vars, cli_vars, notices, end_vars, center_price, grid_levels, active_grid_orders,
                   total_profit, grid_moves_count, pc, init_vars, move_vars,
                   result, quote, raised, book, next_id, inbox,
                   fills, polls, faults, dups>>

\* The handler runs for an order id in active_grid_orders, up to the
\* placement call of the opposite order: the filled level is marked and
\* removed from active_grid_orders, and the opposite level is sent.
HandleFillStart(i) ==
    /\ ~RunEnded
    /\ i \in DOMAIN tasks
    /\ tasks[i].stage = "new"
    /\ IsActiveOrder(tasks[i].order_id)
    /\ LET t        == tasks[i]
           opposite == OppositeLevel(active_grid_orders[t.order_id],
                                     t.filled_price, t.filled_size)
       IN  /\ grid_levels' = MarkFilled(grid_levels, t.order_id)
           /\ active_grid_orders' = RemoveFilled(active_grid_orders, t.order_id)
           /\ \E e \in ExchangePlace(opposite) :
                 /\ Exchanged(e)
                 /\ tasks' = [tasks EXCEPT ![i] =
                                 [@ EXCEPT !.stage = "placing",
                                           !.opposite = opposite,
                                           !.result = e.result]]
    /\ UNCHANGED <<config_vars, cli_vars, notices, end_vars, center_price, total_profit, grid_trades_count,
                   grid_moves_count, pc, init_vars, move_vars, result, quote,
                   raised, inbox, fills, polls, dups>>

\* The handler resumes with the answer to the placement of the opposite
\* order: _place_grid_order binds it on success, and the trade is counted.
HandleFillResume(i) ==
    /\ ~RunEnded
    /\ i \in DOMAIN tasks
    /\ tasks[i].stage = "placing"
    /\ active_grid_orders' =
          PlaceGridOrder(active_grid_orders, tasks[i].opposite, tasks[i].result)
    /\ grid_trades_count' = TradesAfterFill(TRUE, tasks[i].result.success, grid_trades_count)
    /\ tasks' = RemoveAt(tasks, i)
    /\ UNCHANGED <<config_vars, cli_vars, notices, end_vars, center_price, grid_levels, total_profit,
                   grid_moves_count, pc, init_vars, move_vars, result, quote,
                   raised, book, next_id, inbox, fills, polls, faults, dups>>


\* ------------------------------------------- _check_price_breakthrough
\* Variant of BreakthroughOf: a mid price on a limit counts as beyond it.
BreakthroughOf_Inclusive(center, q, upper, lower) ==
    LET mid2000 == (q[1] + q[2]) * 1000
    IN  IF mid2000 >= 2 * center * (1000 + 10 * GridSpacing * upper
                                        + GridSpacing * BreakthroughTenths)
        THEN "UP"
        ELSE IF mid2000 <= 2 * center * (1000 - 10 * GridSpacing * lower
                                             - GridSpacing * BreakthroughTenths)
        THEN "DOWN"
        ELSE "none"

\* The decision of lines 402-431 for the mid price of quote q around
\* center with `upper` and `lower` levels: "UP" when the mid price is
\* above upper_boundary + breakthrough_threshold, "DOWN" when it is below
\* lower_boundary - breakthrough_threshold.  Both sides of each comparison
\* are multiplied by 2000 to stay in the integers.
BreakthroughOf(center, q, upper, lower) ==
    LET mid2000 == (q[1] + q[2]) * 1000
    IN  IF mid2000 > 2 * center * (1000 + 10 * GridSpacing * upper
                                       + GridSpacing * BreakthroughTenths)
        THEN "UP"
        ELSE IF mid2000 < 2 * center * (1000 - 10 * GridSpacing * lower
                                            - GridSpacing * BreakthroughTenths)
        THEN "DOWN"
        ELSE "none"

\* Variant of PollDecision: only the prices' signs are validated.
PollDecision_CrossedQuote(center, q) ==
    IF q[1] > 0 /\ q[2] > 0
    THEN BreakthroughOf(center, q, GridUpperCount, GridLowerCount)
    ELSE "none"

\* Variant of PollDecision: the snapshot is not validated.
PollDecision_AnyQuote(center, q) ==
    BreakthroughOf(center, q, GridUpperCount, GridLowerCount)

\* What one poll decides: nothing on an invalid snapshot (line 399).
PollDecision(center, q) ==
    IF ValidQuote(q)
    THEN BreakthroughOf(center, q, GridUpperCount, GridLowerCount)
    ELSE "none"

\* Variant of NewCenterPrice: the center moves two spacing steps.
NewCenterPrice_TwoSteps(center, dir) ==
    IF dir = "UP"
    THEN RoundToTick(center * (100 + 2 * GridSpacing), 100)
    ELSE RoundToTick(center * (100 - 2 * GridSpacing), 100)

\* _move_grid_up / _move_grid_down and line 471: the center one spacing
\* step further, tick-rounded.
NewCenterPrice(center, dir) ==
    IF dir = "UP"
    THEN RoundToTick(center * (100 + GridSpacing), 100)
    ELSE RoundToTick(center * (100 - GridSpacing), 100)

\* The order ids of active_grid_orders on one side.
SideOrders(active, side) == {id \in DOMAIN active : active[id].side = side}

\* Variant of LowestBuy: the buy nearest to the center.
LowestBuy_Nearest(active) ==
    CHOOSE id \in SideOrders(active, "buy") :
        \A o \in SideOrders(active, "buy") :
            \/ active[id].price > active[o].price
            \/ active[id].price = active[o].price /\ id <= o

\* min(buy_orders, key=price) and max(sell_orders, key=price): the order id
\* of the lowest-priced buy and of the highest-priced sell.
LowestBuy(active) ==
    CHOOSE id \in SideOrders(active, "buy") :
        \A o \in SideOrders(active, "buy") :
            \/ active[id].price < active[o].price
            \/ active[id].price = active[o].price /\ id <= o

HighestSell(active) ==
    CHOOSE id \in SideOrders(active, "sell") :
        \A o \in SideOrders(active, "sell") :
            \/ active[id].price > active[o].price
            \/ active[id].price = active[o].price /\ id <= o

\* The side a move trims, and the order it cancels there.
TrimmedSide(dir) == IF dir = "UP" THEN "buy" ELSE "sell"

OrderToCancel(active, dir) ==
    IF dir = "UP" THEN LowestBuy(active) ELSE HighestSell(active)

\* Variants of NewSellPrice: no price without a resting sell; the step
\* taken from zero instead of from the highest sell.
NewSellPrice_NoFallback(active, center) ==
    IF SideOrders(active, "sell") # {}
    THEN RoundToTick(active[HighestSell(active)].price * (100 + GridSpacing), 100)
    ELSE 0

NewSellPrice_BelowZero(active, center) ==
    IF SideOrders(active, "sell") # {}
    THEN 0 - RoundToTick(active[HighestSell(active)].price * GridSpacing, 100)
    ELSE 0 - RoundToTick(center * GridSpacing, 100)

\* The price of the order a move adds: one spacing step beyond the
\* furthest order of the extended side, or beyond the center when that
\* side has no order, tick-rounded.
NewSellPrice(active, center) ==
    IF SideOrders(active, "sell") # {}
    THEN RoundToTick(active[HighestSell(active)].price * (100 + GridSpacing), 100)
    ELSE RoundToTick(center * (100 + GridSpacing), 100)

NewBuyPrice(active, center) ==
    IF SideOrders(active, "buy") # {}
    THEN RoundToTick(active[LowestBuy(active)].price * (100 - GridSpacing), 100)
    ELSE RoundToTick(center * (100 - GridSpacing), 100)

\* The level index a move gives the level it adds.
NewLevelIndex(dir) ==
    IF dir = "UP" THEN GridUpperCount + 1 ELSE -(GridLowerCount + 1)

\* The level a move adds.
NewMoveLevel(active, center, dir) ==
    IF dir = "UP"
    THEN GridLevel(NewSellPrice(active, center), "sell",
                   LevelQuantity(policy, grid_per_order_amount,
                                 NewSellPrice(active, center)),
                   NewLevelIndex(dir))
    ELSE GridLevel(NewBuyPrice(active, center), "buy",
                   LevelQuantity(policy, grid_per_order_amount,
                                 NewBuyPrice(active, center)),
                   NewLevelIndex(dir))

\* Variant of AfterCancel: the order is deleted whatever the exchange
\* answered.
AfterCancel_Always(active, id, res) == Without(active, id)

\* active_grid_orders after the cancel call returned: the cancelled order
\* is deleted on success.
AfterCancel(active, id, res) ==
    IF res.success THEN Without(active, id) ELSE active

\* The price a move computed cannot be placed: _move_grid_down_optimized
\* returns on a price <= 0 (line 624); _move_grid_up_optimized has no such
\* check and returns only when the division by the price fails (line 545).
PriceRejected(dir, price) ==
    IF dir = "UP" THEN price = 0 ELSE price <= 0

\* Variant of DynamicModeEnabled: the check does not read the setting.
DynamicModeEnabled_Always == TRUE

\* config.grid_dynamic_mode as _check_price_breakthrough reads it (line 391).
DynamicModeEnabled == grid_dynamic_mode

\* ------------------------------------------------------------ the loop
\* An iteration starts.  When 60 s have passed since the last one,
\* _grid_status_monitor runs: it asks the exchange for the active orders,
\* logs their numbers and the counters, and logs a warning when fewer
\* than 80 % of len(grid_levels) orders are active.  It places nothing
\* and changes nothing of the grid, and swallows every exception.
GridStatusMonitor ==
    /\ pc = "monitor"
    /\ pc' = "loop"
    /\ UNCHANGED <<config_vars, cli_vars, notices, end_vars, grid_vars, init_vars, move_vars, result,
                   quote, raised, tasks, book, next_id, inbox,
                   fills, polls, faults, dups>>

\* The loop reaches the breakthrough check with dynamic mode disabled:
\* _check_price_breakthrough returns at once.
PollDisabled ==
    /\ pc = "loop"
    /\ ~DynamicModeEnabled
    /\ pc' = "gate"
    /\ UNCHANGED <<config_vars, cli_vars, notices, end_vars, grid_vars, init_vars, move_vars, result,
                   quote, raised, tasks, book, next_id, inbox,
                   fills, polls, faults, dups>>

\* An iteration less than 10 s after the last check: no check.
PollNotDue ==
    /\ pc = "loop"
    /\ pc' = "gate"
    /\ UNCHANGED <<config_vars, cli_vars, notices, end_vars, grid_vars, init_vars, move_vars, result,
                   quote, raised, tasks, book, next_id, inbox,
                   fills, polls, faults, dups>>

\* Bid/ask snapshots the exchange may answer to a poll while the center
\* is `center`: the mid price on each breakthrough limit and half a tick
\* beyond it, at twice and at half the center, and two invalid snapshots.
UpperLimit2(center) ==
    (2 * center * (1000 + 10 * GridSpacing * GridUpperCount
                        + GridSpacing * BreakthroughTenths)) \div 1000

LowerLimit2(center) ==
    (2 * center * (1000 - 10 * GridSpacing * GridLowerCount
                        - GridSpacing * BreakthroughTenths) + 999) \div 1000

QuoteWithMid2(mid2) == <<(mid2 \div 2) - 1, mid2 - ((mid2 \div 2) - 1)>>

PollQuotes(center) ==
    { QuoteWithMid2(UpperLimit2(center)), QuoteWithMid2(UpperLimit2(center) + 1),
      QuoteWithMid2(LowerLimit2(center)), QuoteWithMid2(LowerLimit2(center) - 1),
      QuoteWithMid2(4 * center), QuoteWithMid2(center),
      <<0, center>>, <<3 * center, center>> }

\* _check_price_breakthrough fetches a snapshot that is invalid or inside
\* the band.  (The call of fetch_bbo_prices is not a step of its own: the
\* check does nothing before it.)
PollNoBreakthrough ==
    /\ pc = "loop"
    /\ DynamicModeEnabled
    /\ polls < MaxPolls
    /\ EventsLeft
    /\ polls' = polls + 1
    /\ quote' \in PollQuotes(center_price)
    /\ PollDecision(center_price, quote') = "none"
    /\ pc' = "gate"
    /\ UNCHANGED <<config_vars, cli_vars, notices, end_vars, grid_vars, init_vars, move_vars, result,
                   raised, tasks, book, next_id, inbox, fills, faults, dups>>

\* fetch_bbo_prices raises: `except Exception` logs the error and the
\* check returns False (lines 435-437).
PollFetchFails ==
    /\ pc = "loop"
    /\ DynamicModeEnabled
    /\ polls < MaxPolls
    /\ faults < MaxFaults
    /\ EventsLeft
    /\ polls' = polls + 1
    /\ faults' = faults + 1
    /\ pc' = "gate"
    /\ UNCHANGED <<config_vars, cli_vars, notices, end_vars, grid_vars, init_vars, move_vars, result,
                   quote, raised, tasks, book, next_id, inbox, fills, dups>>

\* The check resumes with a breakthrough and the trimmed side has no
\* order: _move_grid_*_optimized returns (0, 0), _execute_grid_move has
\* moved the center and counts the move.
MoveWithoutOrders ==
    /\ pc = "loop"
    /\ DynamicModeEnabled
    /\ polls < MaxPolls
    /\ EventsLeft
    /\ polls' = polls + 1
    /\ quote' \in PollQuotes(center_price)
    /\ PollDecision(center_price, quote') # "none"
    /\ LET dir == PollDecision(center_price, quote')
       IN  /\ SideOrders(active_grid_orders, TrimmedSide(dir)) = {}
           /\ direction' = dir
           /\ center_price' = NewCenterPrice(center_price, dir)
    /\ order_id_to_cancel' = None
    /\ cancelled_count' = 0
    /\ added_count' = 0
    /\ new_level' = NoLevel
    /\ grid_moves_count' = grid_moves_count + 1
    /\ pc' = "gate"
    /\ UNCHANGED <<config_vars, cli_vars, notices, end_vars, grid_levels, active_grid_orders, total_profit,
                   grid_trades_count, init_vars, result, raised, tasks, book,
                   next_id, inbox, fills, faults, dups>>

\* The check resumes with a breakthrough: _execute_grid_move moves the
\* center and _move_grid_*_optimized sends the cancel of the furthest
\* order of the trimmed side.
MoveStart ==
    /\ pc = "loop"
    /\ DynamicModeEnabled
    /\ polls < MaxPolls
    /\ EventsLeft
    /\ polls' = polls + 1
    /\ quote' \in PollQuotes(center_price)
    /\ PollDecision(center_price, quote') # "none"
    /\ LET dir == PollDecision(center_price, quote')
       IN  /\ SideOrders(active_grid_orders, TrimmedSide(dir)) # {}
           /\ direction' = dir
           /\ center_price' = NewCenterPrice(center_price, dir)
           /\ order_id_to_cancel' = OrderToCancel(active_grid_orders, dir)
    /\ cancelled_count' = 0
    /\ added_count' = 0
    /\ new_level' = NoLevel
    /\ \E e \in ExchangeCancel(order_id_to_cancel') :
          /\ Exchanged(e)
          /\ result' = e.result
    /\ pc' = "move_cancel"
    /\ UNCHANGED <<config_vars, cli_vars, notices, end_vars, grid_levels, active_grid_orders, total_profit,
                   grid_trades_count, grid_moves_count, init_vars, raised,
                   tasks, inbox, fills, dups>>

\* The move resumes with the answer to the cancel and computes the level
\* to add from the orders now in active_grid_orders.  It sends the level;
\* with a price it cannot place it returns instead, and
\* _execute_grid_move counts the move.
MoveCancelled ==
    /\ pc = "move_cancel"
    /\ active_grid_orders' =
          AfterCancel(active_grid_orders, order_id_to_cancel, result)
    /\ cancelled_count' = CountSuccess(cancelled_count, result)
    /\ LET price == IF direction = "UP"
                    THEN NewSellPrice(active_grid_orders', center_price)
                    ELSE NewBuyPrice(active_grid_orders', center_price)
       IN  IF PriceRejected(direction, price)
           THEN /\ new_level' = NoLevel
                /\ result' = NoResult
                /\ grid_moves_count' = grid_moves_count + 1
                /\ pc' = "gate"
                /\ UNCHANGED exchange_vars
           ELSE /\ new_level' =
                      NewMoveLevel(active_grid_orders', center_price, direction)
                /\ \E e \in ExchangePlace(new_level') :
                      /\ Exchanged(e)
                      /\ result' = e.result
                /\ grid_moves_count' = grid_moves_count
                /\ pc' = "move_place"
    /\ quote' = NoQuote
    /\ UNCHANGED <<config_vars, cli_vars, notices, end_vars, center_price, grid_levels, total_profit,
                   grid_trades_count, init_vars, direction,
                   order_id_to_cancel, added_count, raised, tasks,
                   inbox, fills, polls, dups>>

\* The move resumes with the answer to the placement: _place_grid_order
\* binds the new level on success, and _execute_grid_move counts the move.
MovePlaced ==
    /\ pc = "move_place"
    /\ active_grid_orders' =
          PlaceGridOrder(active_grid_orders, new_level, result)
    /\ added_count' = CountSuccess(added_count, result)
    /\ grid_moves_count' = grid_moves_count + 1
    /\ result' = NoResult
    /\ pc' = "gate"
    /\ UNCHANGED <<config_vars, cli_vars, notices, end_vars, center_price, grid_levels, total_profit,
                   grid_trades_count, init_vars, direction, order_id_to_cancel,
                   cancelled_count, new_level, quote, raised, tasks, book,
                   next_id, inbox, fills, polls, faults, dups>>

\* _check_price_condition reports neither stop nor pause: the loop sleeps
\* 1 s and starts its next iteration.
GateContinue ==
    /\ pc = "gate"
    /\ pc' = "monitor"
    /\ quote' = NoQuote
    /\ UNCHANGED <<config_vars, cli_vars, notices, end_vars, grid_vars, init_vars, move_vars, result,
                   raised, tasks, book, next_id, inbox,
                   fills, polls, faults, dups>>

\* _check_price_condition reports pause (and not stop), the market having
\* reached the pause price: the loop sleeps 5 s (lines 845-847).
GatePause ==
    /\ pc = "gate"
    /\ EventsLeft
    /\ pc' = "paused"
    /\ quote' = NoQuote
    /\ UNCHANGED <<config_vars, cli_vars, notices, end_vars, grid_vars, init_vars, move_vars, result,
                   raised, tasks, book, next_id, inbox,
                   fills, polls, faults, dups>>

\* The 5 s are over: `continue`, the next iteration starts.
PauseEnds ==
    /\ pc = "paused"
    /\ pc' = "monitor"
    /\ UNCHANGED <<config_vars, cli_vars, notices, end_vars, grid_vars, init_vars, move_vars, result,
                   quote, raised, tasks, book, next_id, inbox,
                   fills, polls, faults, dups>>

\* _check_price_condition reports stop, the market having reached the
\* stop price: the notification is sent, graceful_shutdown runs, and
\* `break` leaves the loop (lines 839-843).
GateStop ==
    /\ pc = "gate"
    /\ EventsLeft
    /\ GracefulShutdown(StopReason)
    /\ EnterFinally(FALSE)
    /\ UNCHANGED <<config_vars, cli_vars, notices, center_price, grid_levels, total_profit,
                   grid_trades_count, grid_moves_count, init_vars, move_vars,
                   result, quote, tasks, book, next_id, inbox,
                   fills, polls, faults, dups>>

\* _check_price_condition raises, as its call of the exchange failed: the
\* only call of the loop whose exceptions reach run().
GateRaises ==
    /\ pc = "gate"
    /\ faults < MaxFaults
    /\ EventsLeft
    /\ faults' = faults + 1
    /\ CriticalError("price condition")
    /\ UNCHANGED <<config_vars, cli_vars, notices, center_price, grid_levels, total_profit,
                   grid_trades_count, grid_moves_count, init_vars, move_vars,
                   result, quote, tasks, book, next_id, inbox,
                   fills, polls, dups>>

\* Where run() is when the interrupt arrives: at any of its awaits, from
\* the start-up to the loop, an edge-shift's cancel and placement calls
\* included.  Nothing in run() masks or defers it.
Interruptible ==
    {"init_center", "init_place", "monitor", "loop", "gate", "paused",
     "move_cancel", "move_place"}

\* The user interrupts the bot while run() awaits.  Either run() sees
\* KeyboardInterrupt (lines 851-853: graceful_shutdown, no raise), or the
\* event loop cancels the task and the cancellation, which no except
\* clause of run() catches, passes through the finally block.
Interrupted ==
    /\ pc \in Interruptible
    /\ EventsLeft
    /\ \E caught \in BOOLEAN :
          IF caught
          THEN GracefulShutdown(UserReason) /\ EnterFinally(FALSE)
          ELSE /\ shutdown_reason' = shutdown_reason
               /\ active_grid_orders' = active_grid_orders
               /\ EnterFinally(TRUE)
    /\ UNCHANGED <<config_vars, cli_vars, notices, center_price, grid_levels, total_profit,
                   grid_trades_count, grid_moves_count, init_vars, move_vars,
                   result, quote, tasks, book, next_id, inbox,
                   fills, polls, faults, dups>>

\* This step is the interrupt's: run() leaves its try block for the user's
\* reason, or with the cancellation in flight and no shutdown.
InterruptStep ==
    /\ pc \in Interruptible
    /\ pc' = "finally"
    /\ \/ shutdown_reason' = UserReason
       \/ raised' /\ shutdown_reason' = shutdown_reason

\* run() itself takes this step, and goes on from the call it awaited.
RunResumes == pc' # pc /\ ~InterruptStep

\* Variant of DisconnectRaises: a failed disconnect leaves run() as an
\* exception.
DisconnectRaises_Propagates(exc, outcome) == exc \/ outcome = "failed"

\* Whether an exception leaves run() after the disconnect ended with
\* `outcome`: the one in flight, if any; the disconnect's own is caught
\* and logged (lines 861-864).
DisconnectRaises(exc, outcome) == exc

\* The finally block: exchange_client.disconnect() is awaited and
\* succeeds or raises, and run() ends.
Disconnect ==
    /\ pc = "finally"
    /\ disconnect' \in {"ok", "failed"}
    /\ Stopped(DisconnectRaises(raised, disconnect'))
    /\ UNCHANGED <<config_vars, cli_vars, notices, shutdown_reason, grid_vars, init_vars,
                   move_vars, result, quote, tasks, book, next_id, inbox,
                   fills, polls, faults, dups>>

Next ==
    \/ InitializeFails
    \/ InitializeGrid
    \/ InitPlaceNext
    \/ InitPlaceLast
    \/ \E id \in DOMAIN book : ExchangeFill(id)
    \/ \E m \in inbox : DeliverFilled(m)
    \/ \E m \in inbox : DeliverFilledTwice(m)
    \/ \E i \in DOMAIN tasks : HandleFillUnknown(i)
    \/ \E i \in DOMAIN tasks : HandleFillStart(i)
    \/ \E i \in DOMAIN tasks : HandleFillResume(i)
    \/ GridStatusMonitor
    \/ PollDisabled
    \/ PollNotDue
    \/ PollNoBreakthrough
    \/ PollFetchFails
    \/ MoveWithoutOrders
    \/ MoveStart
    \/ MoveCancelled
    \/ MovePlaced
    \/ GateContinue
    \/ GatePause
    \/ PauseEnds
    \/ GateStop
    \/ GateRaises
    \/ Interrupted
    \/ Disconnect

Spec == Init /\ [][Next]_vars

\* ----------------------------------------------------------- scheduling
\* What the asyncio event loop guarantees: a task that is ready runs.
\* run() takes its next step whenever it has one (its sleeps end, its
\* awaited calls return); the steps of the environment alone (a fill, an
\* interruption) are under no such obligation.
RunStep ==
    \/ InitializeFails \/ InitializeGrid \/ InitPlaceNext \/ InitPlaceLast
    \/ GridStatusMonitor
    \/ PollDisabled \/ PollNotDue \/ PollNoBreakthrough \/ PollFetchFails
    \/ MoveWithoutOrders \/ MoveStart \/ MoveCancelled \/ MovePlaced
    \/ GateContinue \/ GatePause \/ PauseEnds \/ GateStop \/ GateRaises
    \/ Disconnect

\* A task created for _handle_grid_order_fill runs, and resumes when its
\* placement call has returned.
HandlerStep ==
    \E i \in DOMAIN tasks :
        HandleFillUnknown(i) \/ HandleFillStart(i) \/ HandleFillResume(i)

\* The websocket callback is called for a notification that has arrived.
DeliverStep == \E m \in inbox : DeliverFilled(m) \/ DeliverFilledTwice(m)

LiveSpec ==
    /\ Init
    /\ [][Next]_vars
    /\ WF_vars(RunStep)
    /\ WF_vars(HandlerStep)
    /\ WF_vars(DeliverStep)

\* -------------------------------------------------- other notifications
\* The statuses of an order update other than FILLED.
NoticeStatuses == {"PARTIALLY_FILLED", "CANCELED"}

\* The notifications the exchange sends besides the fills of the bot's
\* orders: another status of an order of the bot, and the fill of an
\* order of another contract, whose id may be one the bot knows.
Notices(id) ==
    {OrderUpdate(OwnContract, id, st) : st \in NoticeStatuses}
    \cup {OrderUpdate(OtherContract, id, "FILLED")}

ExchangeNotifies(id) ==
    /\ ~RunEnded
    /\ notices < MaxNotices
    /\ EventsLeft
    /\ id \in DOMAIN book
    /\ \E m \in Notices(id) : inbox' = inbox \cup {m}
    /\ notices' = notices + 1
    /\ UNCHANGED <<config_vars, cli_vars, end_vars, grid_vars, pc, init_vars, move_vars,
                   result, quote, raised, tasks, book, next_id,
                   fills, polls, faults, dups>>

\* The start-up and the order-update callback under every notification
\* the exchange sends.
NoticeNext ==
    \/ InitializeFails
    \/ InitializeGrid
    \/ InitPlaceNext
    \/ InitPlaceLast
    \/ \E id \in DOMAIN book : ExchangeFill(id)
    \/ \E id \in DOMAIN book : ExchangeNotifies(id)
    \/ \E m \in inbox : DeliverFilled(m)
    \/ \E i \in DOMAIN tasks : HandleFillStart(i)
    \/ \E i \in DOMAIN tasks : HandleFillResume(i)
    \/ Disconnect

NoticeSpec == Init /\ [][NoticeNext]_vars

\* ------------------------------------------------------ the command line
\* The command lines validate_grid_parameters is followed on: --grid-spacing,
\* --per-order and --initial-balance in hundredths (0.05 to 10.01 %, 0 to
\* 50.00 USDT an order, 0 to 10000.00 USDT), and the level counts.
CliSpacings  == {0, 5, 10, 100, 1000, 1001}
CliUppers    == {0, 1, 2, 10, 50, 51}
CliLowers    == {1, 10}
CliPerOrders == {0, 999, 1000, 1005, 1010, 5000}
CliBalances  == {0, 3015, 20200, 100000, 1000000}

CliArgs ==
    [grid_spacing : CliSpacings, grid_upper : CliUppers, grid_lower : CliLowers,
     per_order : CliPerOrders, initial_balance : CliBalances]

ValidatorInit ==
    /\ args \in CliArgs
    /\ errors = {}
    /\ pc = "cli"
    /\ policy = "other"
    /\ grid_dynamic_mode = FALSE
    /\ grid_spacing = GridSpacing
    /\ grid_upper_count = GridUpperCount
    /\ grid_lower_count = GridLowerCount
    /\ grid_per_order_amount = GridPerOrderAmount
    /\ market = <<199999, 200001>>
    /\ center_price = None
    /\ grid_levels = <<>>
    /\ active_grid_orders = <<>>
    /\ total_profit = 0
    /\ grid_trades_count = 0
    /\ grid_moves_count = 0
    /\ place_idx = 0
    /\ success_count = 0
    /\ direction = "none"
    /\ order_id_to_cancel = None
    /\ cancelled_count = 0
    /\ added_count = 0
    /\ new_level = NoLevel
    /\ result = NoResult
    /\ quote = NoQuote
    /\ raised = FALSE
    /\ shutdown_reason = NoReason
    /\ disconnect = "none"
    /\ tasks = <<>>
    /\ book = <<>>
    /\ next_id = 1
    /\ inbox = {}
    /\ fills = 0
    /\ polls = 0
    /\ faults = 0
    /\ dups = 0
    /\ notices = 0

\* validate_grid_parameters(args) of grid_bot.py: it calls
\* validate_basic_params and exits with status 1 when the list it returns
\* is not empty (lines 104-118).
ValidateGridParameters ==
    /\ pc = "cli"
    /\ errors' = ValidateBasicParams(args.grid_spacing, args.grid_upper,
                                     args.grid_lower, args.per_order,
                                     args.initial_balance)
    /\ pc' = IF errors' = {} THEN "validated" ELSE "exit"
    /\ UNCHANGED <<config_vars, args, notices, end_vars, grid_vars, init_vars,
                   move_vars, result, quote, raised, tasks, book, next_id,
                   inbox, fills, polls, faults, dups>>

ValidatorNext == ValidateGridParameters

ValidatorSpec == ValidatorInit /\ [][ValidatorNext]_vars

\* ------------------------------------------- construction and start-up
\* The configurations and start-up snapshots a bot is constructed and
\* started with: spacings of 0, 1, 10 and 40 %, 0 to 10 levels a side,
\* amounts of 0, 1 and 50 USDT, and mid prices of 0.02, 0.50, 2000.00
\* and 20000.00 (and one invalid snapshot).
ConfigSpacings == {0, 1, 10, 40}
ConfigUpperCounts == {0, 1, 2}
ConfigLowerCounts == {0, 1, 2, 10}
ConfigAmounts == {0, 1, 50}
ConfigMarkets == {<<1, 3>>, <<49, 51>>, <<199999, 200001>>,
                  <<1999999, 2000001>>, <<0, 5>>}

ConfigInit ==
    /\ policy \in Policies
    /\ grid_dynamic_mode = TRUE
    /\ grid_spacing \in ConfigSpacings
    /\ grid_upper_count \in ConfigUpperCounts
    /\ grid_lower_count \in ConfigLowerCounts
    /\ grid_per_order_amount \in ConfigAmounts
    /\ market \in ConfigMarkets
    /\ center_price = None
    /\ grid_levels = <<>>
    /\ active_grid_orders = <<>>
    /\ total_profit = 0
    /\ grid_trades_count = 0
    /\ grid_moves_count = 0
    /\ pc = "new"
    /\ place_idx = 0
    /\ success_count = 0
    /\ direction = "none"
    /\ order_id_to_cancel = None
    /\ cancelled_count = 0
    /\ added_count = 0
    /\ new_level = NoLevel
    /\ result = NoResult
    /\ quote = NoQuote
    /\ raised = FALSE
    /\ shutdown_reason = NoReason
    /\ disconnect = "none"
    /\ tasks = <<>>
    /\ book = <<>>
    /\ next_id = 1
    /\ inbox = {}
    /\ fills = 0
    /\ polls = 0
    /\ faults = 0
    /\ dups = 0
    /\ notices = 0
    /\ args = NoArgs
    /\ errors = {}

\* Construction, then run() up to the end of _initialize_all_grids.
ConfigNext ==
    \/ Construct
    \/ InitializeFails
    \/ InitializeGrid
    \/ InitPlaceNext
    \/ InitPlaceLast
    \/ Disconnect

ConfigSpec == ConfigInit /\ [][ConfigNext]_vars


\* =============================================================== claims
\* C1: active_grid_orders exactly mirrors the resting levels: every level
\* held in active_grid_orders is an entry of grid_levels, and every entry
\* of grid_levels that is bound to an order resting on the exchange is in
\* active_grid_orders.
C1_ActiveMirrorsLevels ==
    /\ \A id \in DOMAIN active_grid_orders :
          \E k \in DOMAIN grid_levels : grid_levels[k] = active_grid_orders[id]
    /\ \A k \in DOMAIN grid_levels :
          grid_levels[k].order_id \in DOMAIN book
             => /\ grid_levels[k].order_id \in DOMAIN active_grid_orders
                /\ active_grid_orders[grid_levels[k].order_id] = grid_levels[k]

\* C2: each grid level has at most one active order: no two order ids of
\* active_grid_orders map to levels with the same level_index.
C2_OneOrderPerLevel ==
    \A a, b \in DOMAIN active_grid_orders :
        a # b => active_grid_orders[a].level_index
                    # active_grid_orders[b].level_index


\* ---- steps of _handle_grid_order_fill, as the claims name them
\* Task i runs the handler for an order id that is not in
\* active_grid_orders.
UnknownFillHandled ==
    \E i \in DOMAIN tasks :
        /\ tasks[i].stage = "new"
        /\ tasks[i].order_id \notin DOMAIN active_grid_orders
        /\ tasks' = RemoveAt(tasks, i)

\* The callback receives a FILLED notification for an order id that is
\* not in active_grid_orders.
UnknownFillDelivered ==
    \E m \in inbox :
        /\ m.order_id \notin DOMAIN active_grid_orders
        /\ inbox' = inbox \ {m}

\* Task i runs the handler for an order id in active_grid_orders, up to
\* the placement call.
FillStartStep(i) ==
    /\ tasks[i].stage = "new"
    /\ tasks[i].order_id \in DOMAIN active_grid_orders
    /\ Len(tasks') = Len(tasks)
    /\ tasks'[i].stage = "placing"

\* Task i resumes from the placement call and ends.
FillResumeStep(i) ==
    /\ tasks[i].stage = "placing"
    /\ tasks' = RemoveAt(tasks, i)

\* C3: a fill event for an order id that is not in active_grid_orders is a
\* no-op, in the callback and in the handler: center_price, grid_levels,
\* active_grid_orders and the counters are unchanged, the exchange is not
\* called (its book and its order ids are as before, no call has failed),
\* no exception is raised and the loop is where it was.
C3_UnknownFillIsNoOp ==
    [][ (UnknownFillHandled \/ UnknownFillDelivered)
          => /\ UNCHANGED grid_vars
             /\ UNCHANGED exchange_vars
             /\ raised' = raised
             /\ pc' = pc ]_vars

\* C3 witness: a FILLED notification has been delivered twice, both
\* deliveries are through and the fill was handled.
C3_DuplicateFed ==
    /\ fills = 1
    /\ dups = 1
    /\ inbox = {}
    /\ tasks = <<>>
    /\ grid_trades_count = 1

\* q is grid_per_order_amount / price rounded down to the policy's step.
RoundedDown(q, price) ==
    LET step   == QuantityStep(policy)
        amount == GridPerOrderAmount * TicksPerUnit * QtyScale
    IN  /\ q % step = 0
        /\ q * price <= amount
        /\ (q + step) * price > amount

\* q is the quantity the policy yields at price: rounded down to the
\* step, and under a policy with a minimum one step when that is more.
PolicyQuantity(q, price) ==
    IF HasMinimum(policy)
    THEN \/ RoundedDown(q, price) /\ q >= QuantityStep(policy)
         \/ q = QuantityStep(policy) /\ RoundedDown(0, price)
    ELSE RoundedDown(q, price)

\* The order the exchange holds for level o.
OrderOf(o) == [price |-> o.price, side |-> o.side, quantity |-> o.quantity]

C5_TradesCountPerFill ==
    [][ IF \E i \in DOMAIN tasks : FillResumeStep(i)
        THEN grid_trades_count' = grid_trades_count + 1
        ELSE grid_trades_count' = grid_trades_count ]_vars

\* C5 witness: a fill was counted although its opposite order was not
\* placed: every initial order was placed, no move ran, one trade is
\* counted and one level is missing from active_grid_orders.
C5_CountedWithoutOpposite ==
    /\ pc = "loop"
    /\ success_count = Len(grid_levels)
    /\ grid_moves_count = 0
    /\ polls = 0
    /\ tasks = <<>>
    /\ grid_trades_count = 1
    /\ Cardinality(DOMAIN active_grid_orders) = Len(grid_levels) - 1

\* The tasks suspended at the placement of an opposite order.
Placing == {i \in DOMAIN tasks : tasks[i].stage = "placing"}

\* C6: a FILLED notification is processed at most once, however often and
\* whenever it is delivered: the trades counted or under way never exceed
\* the orders the exchange filled, no two handlers are under way for the
\* same order id, and the exchange has accepted no more orders than the
\* initial levels, one opposite order per fill and one order per poll.
C6_FilledProcessedOnce ==
    /\ grid_trades_count + Cardinality(Placing) <= fills
    /\ \A i, j \in Placing : i # j => tasks[i].order_id # tasks[j].order_id
    /\ next_id - 1 <= Len(grid_levels) + fills + polls

\* C6 witness: the notification of a fill was delivered twice while or
\* before its handler is suspended at the placement, and only that one
\* handler exists.
C6_DuplicateWhileSuspended ==
    /\ fills = 1
    /\ dups = 1
    /\ inbox = {}
    /\ Len(tasks) = 1
    /\ tasks[1].stage = "placing"
    /\ grid_trades_count = 0


\* ---- the breakthrough poll, as the claims name it
\* The mid price of snapshot q, the boundaries of the grid around center
\* and the breakthrough threshold, each times 1000.
Mid1000(q) == (q[1] + q[2]) * 500

UpperBoundary1000(center) == center * (1000 + 10 * GridSpacing * GridUpperCount)

LowerBoundary1000(center) == center * (1000 - 10 * GridSpacing * GridLowerCount)

Threshold1000(center) == center * GridSpacing * BreakthroughTenths

\* This step starts a move in direction dir.
MoveTriggered(dir) ==
    /\ direction' = dir
    /\ center_price' = NewCenterPrice(center_price, dir)
    /\ center_price' # center_price

\* C7: a poll with dynamic mode on and a valid snapshot starts an UP move
\* exactly when the mid price is above upper boundary + threshold, a DOWN
\* move exactly when it is below lower boundary - threshold, and otherwise
\* changes nothing of the grid and calls the exchange for nothing else;
\* with center 2000.00, spacing 1 %, 10 upper levels and multiplier 0.5 a
\* mid price of 2210.005 decides UP, 2210.00 and 2205.00 decide nothing.
C7_BreakthroughExactly ==
    [][ /\ (polls' = polls + 1 /\ ValidQuote(quote')) =>
             LET above == Mid1000(quote') > UpperBoundary1000(center_price)
                                              + Threshold1000(center_price)
                 below == Mid1000(quote') < LowerBoundary1000(center_price)
                                              - Threshold1000(center_price)
             IN  /\ MoveTriggered("UP") <=> above
                 /\ MoveTriggered("DOWN") <=> below
                 /\ (~above /\ ~below) =>
                       /\ UNCHANGED <<grid_vars, move_vars, book, next_id>>
                       /\ pc' = "gate"
        /\ BreakthroughOf(200000, <<221000, 221001>>, 10, 10) = "UP"
        /\ BreakthroughOf(200000, <<220999, 221001>>, 10, 10) = "none"
        /\ BreakthroughOf(200000, <<220499, 220501>>, 10, 10) = "none" ]_vars

\* C7 witness: a poll has answered a valid snapshot above the upper limit
\* and the UP move is under way.
C7_UpMoveUnderWay ==
    /\ pc = "move_cancel"
    /\ direction = "UP"
    /\ ValidQuote(quote)
    /\ grid_moves_count = 0

\* C8: with dynamic mode disabled center_price never changes once it is
\* set, grid_moves_count stays 0, no snapshot is fetched and the
\* breakthrough check leaves the exchange's orders and active_grid_orders
\* as they are.
C8_DisabledNeverMoves ==
    [][ ~grid_dynamic_mode =>
          /\ center_price # None => center_price' = center_price
          /\ grid_moves_count' = 0
          /\ polls' = polls
          /\ pc' \notin {"move_cancel", "move_place"}
          /\ (pc = "loop" /\ RunResumes) =>
                UNCHANGED <<active_grid_orders, book, next_id, faults>> ]_vars

\* C8 witness: dynamic mode is disabled and the loop has passed the
\* breakthrough check.
C8_DisabledCheckPassed ==
    /\ ~grid_dynamic_mode
    /\ pc = "gate"


\* ---- the edge-shift, as the claims name it
\* The number of orders in active_grid_orders.
ActiveCount == Cardinality(DOMAIN active_grid_orders)

\* This step ends a shift: the shift returns to _execute_grid_move.
ShiftEnds ==
    /\ pc' = "gate"
    /\ \/ pc \in {"move_cancel", "move_place"}
       \/ pc = "loop" /\ center_price' # center_price

\* 1 when the exchange call the loop awaited succeeded, else 0.
Succeeded == IF result.success THEN 1 ELSE 0

\* C9 (amended): an UP edge-shift raises grid_moves_count by exactly 1,
\* and of itself changes the size of active_grid_orders by
\* added - cancelled, where cancelled is 1 when the exchange confirmed
\* the cancel of the lowest buy and else 0, and added is 1 when the
\* exchange accepted the new sell and else 0 (both 0 when no buy is in
\* active_grid_orders); no other step changes grid_moves_count.
C9_UpShiftBalance ==
    [][ /\ (pc = "loop" /\ MoveTriggered("UP")) =>
              /\ ActiveCount' = ActiveCount
              /\ cancelled_count' = 0
              /\ added_count' = 0
        /\ (pc = "move_cancel" /\ RunResumes /\ direction = "UP") =>
              /\ cancelled_count' = Succeeded
              /\ added_count' = 0
              /\ ActiveCount' = ActiveCount - cancelled_count'
        /\ (pc = "move_place" /\ RunResumes /\ direction = "UP") =>
              /\ cancelled_count' = cancelled_count
              /\ added_count' = Succeeded
              /\ ActiveCount' = ActiveCount + added_count'
        /\ IF ShiftEnds
           THEN grid_moves_count' = grid_moves_count + 1
           ELSE grid_moves_count' = grid_moves_count ]_vars

\* C9 witness: an UP shift has ended with one order cancelled and one
\* added, and active_grid_orders has the size it had.
C9_UpShiftBalanced ==
    /\ pc = "gate"
    /\ direction = "UP"
    /\ grid_moves_count = 1
    /\ cancelled_count = 1
    /\ added_count = 1
    /\ fills = 0
    /\ ActiveCount = Len(grid_levels)

\* C9 as stated, for the first shift of a run in which every initial
\* order was placed and no order was filled: after the UP shift
\* active_grid_orders has the size it had, one order was cancelled and
\* one added.
C9_UpShiftKeepsCount ==
    ( /\ pc = "gate"
      /\ direction = "UP"
      /\ grid_moves_count = 1
      /\ fills = 0
      /\ success_count = Len(grid_levels) )
    => /\ ActiveCount = Len(grid_levels)
       /\ cancelled_count = 1
       /\ added_count = 1

\* The side a shift in direction dir extends.
LeadingSide(dir) == IF dir = "UP" THEN "sell" ELSE "buy"

\* Order id is the furthest order of active on the side a shift in
\* direction dir trims.
IsFurthestTrailing(active, id, dir) ==
    /\ id \in DOMAIN active
    /\ active[id].side = TrimmedSide(dir)
    /\ \A o \in DOMAIN active :
          active[o].side = TrimmedSide(dir) =>
             IF dir = "UP" THEN active[id].price <= active[o].price
                           ELSE active[id].price >= active[o].price

\* p is one spacing step beyond the furthest order of the leading side of
\* active, or beyond center when that side is empty, tick-rounded.
IsStepBeyond(p, active, center, dir) ==
    LET prices == {active[o].price :
                      o \in {x \in DOMAIN active :
                                active[x].side = LeadingSide(dir)}}
        factor == IF dir = "UP" THEN 100 + GridSpacing ELSE 100 - GridSpacing
    IN  IF prices = {}
        THEN p = RoundToTick(center * factor, 100)
        ELSE \E f \in prices :
                /\ \A q \in prices :
                      IF dir = "UP" THEN q <= f ELSE q >= f
                /\ p = RoundToTick(f * factor, 100)

\* C10 (amended): a shift sends at most one cancel, for the lowest-priced
\* buy of active_grid_orders when moving UP and the highest-priced sell
\* when moving DOWN, and none when that side is empty, in which case it
\* places nothing.  After the cancel returns, confirmed or not, it sends
\* at most one placement: an order of the leading side priced one spacing
\* step beyond the furthest order of that side in active_grid_orders, or
\* beyond the new center when there is none.  Only a confirmed cancel
\* removes its order from active_grid_orders and only an accepted
\* placement adds its level; the shift cancels and places nothing else.
C10_ShiftCancelsAndPlacesOne ==
    [][ /\ \A dir \in {"UP", "DOWN"} :
              (pc = "loop" /\ MoveTriggered(dir)) =>
                 /\ active_grid_orders' = active_grid_orders
                 /\ next_id' = next_id
                 /\ IF SideOrders(active_grid_orders, TrimmedSide(dir)) = {}
                    THEN book' = book /\ pc' = "gate"
                    ELSE /\ IsFurthestTrailing(active_grid_orders,
                                               order_id_to_cancel', dir)
                         /\ book' \in {book, Without(book, order_id_to_cancel')}
                         /\ pc' = "move_cancel"
        /\ (pc = "move_cancel" /\ RunResumes) =>
              LET new == DOMAIN book' \ DOMAIN book
              IN  /\ active_grid_orders' =
                        IF result.success
                        THEN Without(active_grid_orders, order_id_to_cancel)
                        ELSE active_grid_orders
                  /\ \A id \in DOMAIN book :
                        id \in DOMAIN book' /\ book'[id] = book[id]
                  /\ Cardinality(new) <= 1
                  /\ \A id \in new :
                        /\ book'[id].side = LeadingSide(direction)
                        /\ IsStepBeyond(book'[id].price, active_grid_orders',
                                        center_price, direction)
                        /\ OrderOf(new_level') = book'[id]
        /\ (pc = "move_place" /\ RunResumes) =>
              /\ book' = book
              /\ IF result.success
                 THEN active_grid_orders' =
                         (result.order_id :>
                             [new_level EXCEPT !.order_id = result.order_id])
                         @@ active_grid_orders
                 ELSE active_grid_orders' = active_grid_orders ]_vars

\* C10 witness: a DOWN shift has ended with the highest sell cancelled and
\* the new buy placed.
C10_DownShiftSwapped ==
    /\ pc = "gate"
    /\ direction = "DOWN"
    /\ cancelled_count = 1
    /\ added_count = 1
    /\ new_level.side = "buy"
    /\ \E id \in DOMAIN active_grid_orders \cap DOMAIN book :
          active_grid_orders[id] = [new_level EXCEPT !.order_id = id]

\* C10 as stated: every shift cancels one order and places exactly one
\* new order, which rests on the leading side.
C10_ShiftAlwaysSwapsOne ==
    [][ ShiftEnds =>
          /\ cancelled_count' = 1
          /\ added_count' = 1
          /\ \E id \in DOMAIN book' :
                /\ id \notin DOMAIN book \/ pc = "move_place"
                /\ book'[id].side = LeadingSide(direction') ]_vars


\* This step resumes a shift from its cancel call, and from its placement
\* call.
CancelReturns == pc = "move_cancel" /\ RunResumes

PlaceReturns == pc = "move_place" /\ RunResumes

\* C11: the level a shift creates gets the next unused level index of its
\* side: when the shift sends it, no level of active_grid_orders carries
\* its level_index.
C11_ShiftIndexUnused ==
    [][ (CancelReturns /\ pc' = "move_place") =>
           \A id \in DOMAIN active_grid_orders' :
               active_grid_orders'[id].level_index # new_level'.level_index
      ]_vars

\* C12: the cancel and the placement of a shift are independent: when the
\* cancel fails or raises, active_grid_orders is left as it is and the
\* new order of the leading side is still computed and sent; the shift's
\* cancelled_count and added_count are the numbers of its successful
\* cancels and placements.
C12_CancelPlaceIndependent ==
    [][ /\ CancelReturns =>
              /\ cancelled_count' = Succeeded
              /\ added_count' = 0
              /\ ~result.success =>
                    /\ active_grid_orders' = active_grid_orders
                    /\ pc' = "move_place"
                    /\ new_level'.side = LeadingSide(direction)
                    /\ \/ /\ faults' = faults
                          /\ \E id \in DOMAIN book' \ DOMAIN book :
                                book'[id] = OrderOf(new_level')
                       \/ /\ faults' = faults + 1
                          /\ book' = book
        /\ PlaceReturns =>
              /\ cancelled_count' = cancelled_count
              /\ added_count' = Succeeded ]_vars

\* C12 witness: a shift has ended whose cancel failed and whose placement
\* succeeded.
C12_PlacedAfterFailedCancel ==
    /\ pc = "gate"
    /\ direction \in {"UP", "DOWN"}
    /\ grid_moves_count = 1
    /\ cancelled_count = 0
    /\ added_count = 1

\* C13: a shift that finds no order on the side it trims returns without
\* a call to the exchange, and a shift that finds no order on the side it
\* extends prices the new order from the center; no step of a shift
\* raises out of run() or stops the loop, and the shift ends at the
\* loop's next duty.
C13_ShiftToleratesEmptySide ==
    [][ /\ \A dir \in {"UP", "DOWN"} :
              ( /\ pc = "loop"
                /\ MoveTriggered(dir)
                /\ SideOrders(active_grid_orders, TrimmedSide(dir)) = {} )
              => /\ pc' = "gate"
                 /\ cancelled_count' = 0
                 /\ added_count' = 0
                 /\ UNCHANGED <<active_grid_orders, book, next_id, faults>>
        /\ ( /\ CancelReturns
             /\ SideOrders(active_grid_orders', LeadingSide(direction)) = {} )
           => /\ pc' = "move_place"
              /\ new_level'.price =
                    RoundToTick(center_price *
                                   (IF direction = "UP"
                                    THEN 100 + GridSpacing
                                    ELSE 100 - GridSpacing), 100)
        /\ ( /\ pc \in {"move_cancel", "move_place"} \/ pc' \in {"move_cancel", "move_place"}
             /\ ~InterruptStep )
           => /\ raised' = FALSE
              /\ pc' \in {"move_cancel", "move_place", "gate"} ]_vars

\* C13 witness: an UP shift has ended that found no buy order: nothing
\* was cancelled or added, no call failed, and the loop goes on.
C13_UpShiftWithoutBuys ==
    /\ pc = "gate"
    /\ direction = "UP"
    /\ grid_moves_count = 1
    /\ cancelled_count = 0
    /\ added_count = 0
    /\ faults = 0
    /\ SideOrders(active_grid_orders, "buy") = {}
    /\ ~raised

LevelIndices == {grid_levels[k].level_index : k \in DOMAIN grid_levels}

\* C15: the levels calculated for a valid configuration are exactly
\* grid_lower_count + grid_upper_count, every buy is priced below
\* center_price and every sell above it, and the level indices are
\* exactly -grid_lower_count..-1 and 1..grid_upper_count.
C15_LevelsAroundCenter ==
    grid_levels # <<>> =>
       /\ Len(grid_levels) = grid_lower_count + grid_upper_count
       /\ \A k \in DOMAIN grid_levels :
             /\ grid_levels[k].side = "buy" =>
                   grid_levels[k].price < center_price
             /\ grid_levels[k].side = "sell" =>
                   grid_levels[k].price > center_price
       /\ LevelIndices = {i \in -grid_lower_count..grid_upper_count : i # 0}
       /\ Cardinality(LevelIndices) = Len(grid_levels)

\* C16: constructing the bot raises a configuration error exactly when
\* the spacing, a count or the amount is not positive or spacing times
\* grid_lower_count is 100 % or more, and then nothing has been asked of
\* the exchange; spacing 15 % with 10 lower levels is refused, spacing
\* 1 % with 10 lower levels is accepted.
C16_ConfigErrorAtConstruction ==
    [][ /\ pc = "new" =>
              /\ raised' <=> \/ grid_spacing <= 0
                             \/ grid_upper_count <= 0
                             \/ grid_lower_count <= 0
                             \/ grid_per_order_amount <= 0
                             \/ grid_spacing * grid_lower_count >= 100
              /\ pc' = IF raised' THEN "stopped" ELSE "init_center"
              /\ center_price' = None
              /\ book' = <<>> /\ next_id' = 1 /\ faults' = 0
        /\ ~ValidGridConfig(15, 10, 10, 50)
        /\ ValidGridConfig(1, 10, 10, 50) ]_vars

\* C16 witness: the construction was refused for a positive spacing that
\* takes the lowest level to 0 or below, and nothing was placed.
C16_RefusedForReduction ==
    /\ pc = "stopped"
    /\ raised
    /\ grid_spacing > 0 /\ grid_upper_count > 0 /\ grid_per_order_amount > 0
    /\ grid_spacing * grid_lower_count >= 100
    /\ book = <<>>

\* C17: when a level's tick-rounded price is <= 0 the initialization
\* raises with grid_levels and active_grid_orders empty and nothing
\* placed; and no calculated level has a quantity of 0 or less.
C17_NoPartialStateNoZeroQuantity ==
    /\ ( /\ center_price # None
         /\ ~LevelPricesValid(center_price, grid_spacing, grid_lower_count,
                              grid_upper_count) )
       => /\ RunEnded /\ raised
          /\ grid_levels = <<>>
          /\ active_grid_orders = <<>>
          /\ book = <<>> /\ next_id = 1
    /\ \A k \in DOMAIN grid_levels : grid_levels[k].quantity > 0

\* grid_per_order_amount / price in quantity units, rounded down.
AmountOverPrice(price) ==
    (grid_per_order_amount * TicksPerUnit * QtyScale) \div price

\* C18: the quantity of every calculated level is
\* grid_per_order_amount / price rounded down to the policy's step, and
\* so never above grid_per_order_amount / price.
C18_QuantityRoundedDown ==
    \A k \in DOMAIN grid_levels :
        LET q    == grid_levels[k].quantity
            step == QuantityStep(policy)
        IN  /\ q <= AmountOverPrice(grid_levels[k].price)
            /\ q = (AmountOverPrice(grid_levels[k].price) \div step) * step

\* C19: every level sent to the exchange has a quantity of at least one
\* step of its policy, and above 0.
C19_QuantityAtLeastMinimum ==
    /\ \A k \in DOMAIN grid_levels :
          k <= place_idx =>
             /\ grid_levels[k].quantity >= QuantityStep(policy)
             /\ grid_levels[k].quantity > 0
    /\ \A id \in DOMAIN book : book[id].quantity > 0


\* ---- the life of run(), as the claims name it
\* The controller states: Uninitialized (no center yet), Initializing
\* (the levels are being placed), Running (the loop), ShuttingDown (the
\* finally block, after graceful_shutdown) and Stopped.
PhaseOf(p) ==
    CASE p \in {"new", "init_center"}                        -> 0
      [] p = "init_place"                                     -> 1
      [] p \in {"monitor", "loop", "gate", "paused",
                "move_cancel", "move_place"}                  -> 2
      [] p = "finally"                                        -> 3
      [] OTHER                                                -> 4

\* C20: the controller goes through Uninitialized, Initializing, Running
\* ShuttingDown and Stopped in that order and never back; Running is
\* entered only from the end of the placement of the levels, with
\* center_price set and at least one level placed; and the loop's
\* reposition duty (a poll, a change of center_price, a counted move)
\* runs only while Running.
C20_LifecycleInOrder ==
    [][ /\ PhaseOf(pc') >= PhaseOf(pc)
        /\ (PhaseOf(pc') = 2 /\ PhaseOf(pc) # 2) =>
              /\ pc = "init_place"
              /\ center_price' # None
              /\ grid_levels' # <<>>
              /\ place_idx' = Len(grid_levels')
              /\ success_count' >= 1
        /\ PhaseOf(pc) # 2 =>
              /\ polls' = polls
              /\ grid_moves_count' = grid_moves_count
              /\ UNCHANGED move_vars
              /\ PhaseOf(pc) # 0 => center_price' = center_price ]_vars

\* C20 witness: run() has ended without an exception after the loop ran
\* and repositioned the grid once.
C20_StoppedAfterRunning ==
    /\ pc = "stopped"
    /\ ~raised
    /\ center_price # None
    /\ grid_moves_count = 1


\* ---- the end of run(), as the claims name it
\* This step is the stop gate's: _check_price_condition reported stop.
StopReported == pc = "gate" /\ shutdown_reason' = StopReason

\* This step belongs to the loop: a health check, a breakthrough check, a
\* reposition, the gate or a sleep.
LoopStep ==
    \/ pc' \in {"monitor", "loop", "gate", "paused", "move_cancel", "move_place"}
    \/ polls' # polls
    \/ grid_moves_count' # grid_moves_count
    \/ center_price' # center_price

\* C21: when the gate reports that the stop price is reached,
\* graceful_shutdown is called in that step of the loop, with no
\* exception; from then on the loop takes no step (no health check, no
\* breakthrough check, no reposition), and the one step left is the
\* disconnect, after which run() has returned without an exception.
C21_StopPriceShutsDown ==
    [][ /\ StopReported => pc' = "finally" /\ ~raised'
        /\ shutdown_reason = StopReason =>
              /\ ~LoopStep
              /\ pc = "finally" /\ pc' = "stopped"
              /\ disconnect' # "none"
              /\ ~raised'
              /\ shutdown_reason' = StopReason ]_vars

\* C21 witness: run() has returned after the stop price was reached in an
\* iteration that had repositioned the grid.
C21_StoppedAtStopPrice ==
    /\ pc = "stopped"
    /\ shutdown_reason = StopReason
    /\ disconnect # "none"
    /\ grid_moves_count = 1
    /\ ~raised


\* C22: in an iteration in which the gate reported pause, no order is
\* placed, by a reposition or by the flip of a fill, and none is
\* cancelled: while the loop is in its pause the exchange is sent no
\* placement (it hands out no order id and fails no call) and takes no
\* order off its book other than by filling it.
C22_PauseSuspendsPlacement ==
    [][ pc = "paused" =>
          /\ next_id' = next_id
          /\ faults' = faults
          /\ \A id \in DOMAIN book :
                id \in DOMAIN book' \/ fills' = fills + 1 ]_vars


\* C23: every execution of run() that ends, by the stop price, by an
\* exception of the initialization or of the loop, or by an interruption,
\* ends through the finally block: the disconnect is attempted before
\* run() returns or its exception propagates, and a failed disconnect
\* raises nothing of its own.
C23_AlwaysDisconnects ==
    [][ /\ (pc \notin {"new", "finally", "stopped"} /\ RunEnded')
              => pc' = "finally" /\ disconnect' = "none"
        /\ pc = "finally" =>
              /\ pc' = "stopped"
              /\ disconnect' \in {"ok", "failed"}
              /\ raised' = raised
        /\ (pc = "stopped" /\ disconnect # "none") => UNCHANGED vars ]_vars

\* C23 witness: run() has returned after an interruption, and its
\* disconnect failed.
C23_InterruptedDisconnectFailed ==
    /\ pc = "stopped"
    /\ shutdown_reason = UserReason
    /\ disconnect = "failed"
    /\ ~raised

\* This step calls graceful_shutdown.
ShutdownCalled == shutdown_reason = NoReason /\ shutdown_reason' # NoReason

\* C24: graceful_shutdown leaves the resting orders in place: the step
\* that calls it sends the exchange neither a cancel nor a placement and
\* leaves active_grid_orders, grid_levels and the counters as they are,
\* and center_price too (which the start-up step that fails on its
\* levels has set before it fails).
C24_ShutdownLeavesOrders ==
    [][ ShutdownCalled =>
          /\ book' = book /\ next_id' = next_id
          /\ UNCHANGED <<active_grid_orders, grid_levels, total_profit,
                         grid_trades_count, grid_moves_count>>
          /\ pc # "init_center" => center_price' = center_price ]_vars

\* C24 witness: graceful_shutdown has run for the stop price, and orders
\* of active_grid_orders rest on the exchange.
C24_OrdersRestAfterShutdown ==
    /\ pc = "finally"
    /\ shutdown_reason = StopReason
    /\ \E id \in DOMAIN active_grid_orders : id \in DOMAIN book

\* C25: an exception raised inside the loop calls graceful_shutdown with
\* the exception's message as the reason; the exception is in flight
\* while the finally block disconnects and leaves run() after it; the
\* loop takes no step after the exception.
C25_LoopErrorShutsDownThenRaises ==
    [][ /\ (pc = "gate" /\ raised' /\ ~InterruptStep) =>
              /\ shutdown_reason' = <<"Critical error", "price condition">>
              /\ pc' = "finally"
              /\ disconnect' = "none"
        /\ raised =>
              /\ ~LoopStep
              /\ raised'
              /\ shutdown_reason' = shutdown_reason
              /\ pc = "finally" => pc' = "stopped" /\ disconnect' # "none" ]_vars

\* C25 witness: the exception of the loop has left run() after the
\* shutdown and the disconnect.
C25_LoopErrorRaised ==
    /\ pc = "stopped"
    /\ raised
    /\ shutdown_reason = <<"Critical error", "price condition">>
    /\ disconnect # "none"
    /\ success_count >= 1


\* C26: a failed placement or cancel is never escalated: the step that
\* resumes from a placement or a cancel call of the initialization or of
\* a reposition, whatever the call and the calls before it returned,
\* neither raises out of run() nor shuts the bot down.
C26_CallFailureNotEscalated ==
    [][ (pc \in {"init_place", "move_cancel", "move_place"}) =>
          /\ ~RunEnded'
          /\ ~raised'
          /\ shutdown_reason' = NoReason ]_vars

\* The start-up has ended and level k of grid_levels has no order: its
\* placement failed.
Unresting(k) ==
    /\ pc \notin {"new", "init_center", "init_place"}
    /\ k \in DOMAIN grid_levels
    /\ grid_levels[k].order_id = None

\* Level k has an order: it is bound to one, or an order of its side
\* rests at its price.
Resting(k) ==
    /\ k \in DOMAIN grid_levels
    /\ \/ grid_levels[k].order_id # None
       \/ \E id \in DOMAIN book :
             /\ book[id].price = grid_levels[k].price
             /\ book[id].side = grid_levels[k].side

\* C27: a level whose placement failed is retried by the periodic status
\* pass: when the loop keeps running and the exchange fails no call from
\* some point on, a level left without an order at start-up eventually
\* has a resting order again.
C27_FailedLevelRetried ==
    \A k \in 1..(GridLowerCount + GridUpperCount) :
        ([]~RunEnded /\ <>[][faults' = faults]_vars)
            => (Unresting(k) ~> Resting(k))

\* An edge-shift is between its steps: its cancel call or its placement
\* call is awaited.
Shifting == pc \in {"move_cancel", "move_place"}

\* This step starts an edge-shift, or resumes one.
ShiftStep ==
    \/ pc = "loop" /\ pc' \in {"move_cancel", "move_place"}
    \/ Shifting /\ RunResumes

\* C28: fill handling and repositioning exclude each other on the grid
\* state: no step of a fill handler that flips a level runs while an
\* edge-shift awaits its cancel or its placement, no step of an edge-shift
\* runs while a flip awaits its placement, and so the order an edge-shift
\* resumes to remove is still in active_grid_orders.
C28_FillAndShiftExclusive ==
    [][ /\ Shifting =>
              \A i \in DOMAIN tasks : ~FillStartStep(i) /\ ~FillResumeStep(i)
        /\ (Placing # {}) => ~ShiftStep
        /\ (pc = "move_cancel" /\ RunResumes) =>
              order_id_to_cancel \in DOMAIN active_grid_orders ]_vars

\* The callback is called with message m in this step, for the last time.
Delivered(m) == m \in inbox /\ m \notin inbox'

\* m is not the fill of an order of the bot's own contract.
NotOwnFill(m) == m.status # "FILLED" \/ m.contract_id # OwnContract

\* C29: a notification reaches the fill handler only when its status is
\* FILLED and its contract is the bot's own: the delivery of any other
\* notification changes nothing of the grid, creates no handler task and
\* calls the exchange for nothing, and every handler task is created for
\* a FILLED notification of the own contract.
C29_OnlyOwnFillsDispatched ==
    [][ /\ \A m \in inbox :
              (Delivered(m) /\ NotOwnFill(m)) =>
                  UNCHANGED <<grid_vars, tasks, book, next_id, faults, pc>>
        /\ (Len(tasks') > Len(tasks)) =>
              \E m \in inbox :
                  /\ ~NotOwnFill(m)
                  /\ tasks'[Len(tasks')].order_id = m.order_id ]_vars

\* C29 witness: a notification that is not an own fill was sent for an
\* order of active_grid_orders and has been delivered: no task exists and
\* every level still has its order.
C29_OtherNoticeDelivered ==
    /\ pc = "monitor"
    /\ notices = 1
    /\ inbox = {}
    /\ fills = 0
    /\ tasks = <<>>
    /\ Cardinality(DOMAIN active_grid_orders) = Len(grid_levels)
    /\ DOMAIN book = DOMAIN active_grid_orders

\* The snapshot q is a breakthrough of the grid around center: its mid
\* price is beyond a boundary by more than the threshold.
ConfirmedBreakthrough(center, q) ==
    /\ ValidQuote(q)
    /\ \/ Mid1000(q) > UpperBoundary1000(center) + Threshold1000(center)
       \/ Mid1000(q) < LowerBoundary1000(center) - Threshold1000(center)

\* C30: center_price is set once, at start, to the tick-rounded mid price
\* of the start-up snapshot, and changes afterwards only in the step of
\* the breakthrough check that starts a reposition on a confirmed
\* breakthrough: the callback, the fill handler, the status pass, the
\* stop/pause gate, the steps a reposition resumes with, graceful_shutdown
\* and the disconnect leave it as it is.
C30_CenterOnlyMovesOnBreakthrough ==
    [][ /\ (pc = "init_center" /\ center_price' # center_price) =>
              /\ center_price = None
              /\ ValidQuote(market)
              /\ 2 * center_price' - (market[1] + market[2]) \in {-1, 0, 1}
        /\ (pc # "init_center" /\ center_price' # center_price) =>
              /\ center_price # None
              /\ pc = "loop"
              /\ pc' \in {"move_cancel", "gate"}
              /\ polls' = polls + 1
              /\ ConfirmedBreakthrough(center_price, quote')
        /\ ( \/ pc \in {"monitor", "gate", "paused", "move_cancel",
                        "move_place", "finally", "stopped"}
             \/ tasks' # tasks
             \/ inbox' # inbox
             \/ (pc # "init_center" /\ ShutdownCalled) ) =>
              center_price' = center_price ]_vars

\* C30 witness: a reposition has moved center_price away from the mid
\* price of the start-up snapshot, and a fill has been handled and the
\* loop has passed its gate since.
C30_CenterMovedOnce ==
    /\ pc = "monitor"
    /\ grid_moves_count = 1
    /\ grid_trades_count = 1
    /\ center_price # None
    /\ 2 * center_price - (market[1] + market[2]) \notin {-1, 0, 1}

\* C31: grid_trades_count, grid_moves_count and total_profit never
\* decrease: no step of the construction, the start-up, the loop, the
\* fill handler, the shutdown or the disconnect lowers or resets one of
\* them.
C31_CountersMonotonic ==
    [][ /\ grid_trades_count' >= grid_trades_count
        /\ grid_moves_count' >= grid_moves_count
        /\ total_profit' >= total_profit ]_vars

\* C31 witness: a trade and a move have been counted, and run() has ended
\* through graceful_shutdown and the disconnect.
C31_CountedThenStopped ==
    /\ pc = "stopped"
    /\ shutdown_reason # NoReason
    /\ grid_trades_count = 1
    /\ grid_moves_count = 1

\* Every rule of the parameter validation holds for the arguments a, taken
\* as the decimals they were given as.
RulesHold(a) ==
    /\ 10 <= a.grid_spacing /\ a.grid_spacing <= 1000
    /\ 1 <= a.grid_upper /\ a.grid_upper <= 50
    /\ 1 <= a.grid_lower /\ a.grid_lower <= 50
    /\ a.per_order >= 1000
    /\ a.initial_balance > 0
    /\ a.initial_balance <= 10 * (a.grid_upper + a.grid_lower) * a.per_order
    /\ (a.grid_upper + a.grid_lower) * a.per_order <= a.initial_balance

\* C32: validate_basic_params returns an empty list exactly when every
\* rule holds: 0.1 <= spacing <= 10, 1 <= upper, lower <= 50, per_order
\* >= 10, initial_balance > 0 and 10 % of initial_balance <= (upper +
\* lower) * per_order <= initial_balance; it is empty for (1.0, 10, 10,
\* 50, 1000) and not empty for a spacing <= 0.
C32_ValidatorExact ==
    /\ pc \in {"validated", "exit"} => (errors = {} <=> RulesHold(args))
    /\ ValidateBasicParams(100, 10, 10, 5000, 100000) = {}
    /\ ValidateBasicParams(0, 10, 10, 5000, 100000) # {}

\* The calls this step sends to the exchange: an accepted placement takes
\* the next order id, a failed call is counted.
CallsSent == (next_id' - next_id) + (faults' - faults)

\* _place_grid_order resumes with the response res for level: what it
\* does to active_grid_orders.
Bound(level, res) ==
    IF res.success
    THEN /\ res.order_id \notin DOMAIN active_grid_orders
         /\ DOMAIN active_grid_orders'
               = DOMAIN active_grid_orders \cup {res.order_id}
         /\ active_grid_orders'[res.order_id]
               = [level EXCEPT !.order_id = res.order_id]
         /\ \A id \in DOMAIN active_grid_orders :
               active_grid_orders'[id] = active_grid_orders[id]
    ELSE active_grid_orders' = active_grid_orders

\* _initialize_all_grids resumes from a placement call.
InitPlaceStep == pc = "init_place" /\ (place_idx' # place_idx \/ RunResumes)

\* C33: _place_grid_order sends one placement call per invocation and
\* never repeats it.  When it resumes with a success it binds the order id
\* to the level and enters the level in active_grid_orders; when it
\* resumes with an unsuccessful result or an exception it leaves the
\* level's order_id and active_grid_orders as they are, raises nothing
\* and sends no other call for the level: the start-up goes on to its
\* next level, the fill handler and the shift end.  (Only
\* _initialize_all_grids itself raises, after its last level, when no
\* level at all was placed.)
C33_PlaceOnceNoRetry ==
    [][ /\ CallsSent \in {0, 1}
        /\ PlaceReturns =>
              /\ Bound(new_level, result)
              /\ CallsSent = 0 /\ book' = book
              /\ ~raised' /\ pc' = "gate"
        /\ \A i \in DOMAIN tasks : FillResumeStep(i) =>
              /\ Bound(tasks[i].opposite, tasks[i].result)
              /\ CallsSent = 0 /\ book' = book
              /\ ~raised' /\ pc' = pc
        /\ InitPlaceStep =>
              /\ Bound(grid_levels[place_idx], result)
              /\ grid_levels'[place_idx].order_id
                    = IF result.success THEN result.order_id ELSE None
              /\ \A k \in DOMAIN grid_levels :
                    k # place_idx => grid_levels'[k] = grid_levels[k]
              /\ raised' => /\ place_idx = Len(grid_levels)
                            /\ success_count = 0 /\ ~result.success
              /\ IF place_idx < Len(grid_levels)
                 THEN /\ place_idx' = place_idx + 1
                      /\ CallsSent = 1
                      /\ \A id \in DOMAIN book' \ DOMAIN book :
                            book'[id] = OrderOf(grid_levels[place_idx + 1])
                 ELSE CallsSent = 0 /\ book' = book ]_vars

\* C33 witness: every level was placed at start-up, one order was filled
\* and the placement of its opposite order failed: the handler has ended
\* and no other order was sent.
C33_FlipFailedOnce ==
    /\ pc = "monitor"
    /\ success_count = Len(grid_levels)
    /\ fills = 1 /\ polls = 0 /\ faults = 1
    /\ tasks = <<>> /\ inbox = {}
    /\ grid_trades_count = 1
    /\ next_id = Len(grid_levels) + 1
    /\ Cardinality(DOMAIN active_grid_orders) = Len(grid_levels) - 1

\* p is the tick nearest to num / 100.
NearestTick(p, num) == 2 * (100 * p - num) \in -100..100

\* C34: a detected breakthrough moves center_price by exactly one spacing
\* step in the direction of the breach, however far the mid price is
\* beyond the boundary: to the tick nearest old * (1 + spacing) going UP
\* and old * (1 - spacing) going DOWN; center_price moves in no other
\* step, and no more moves are counted than polls were answered.
C34_OneStepPerBreakthrough ==
    [][ /\ (center_price # None /\ center_price' # center_price) =>
              /\ polls' = polls + 1
              /\ direction' \in {"UP", "DOWN"}
              /\ direction' = "UP" <=> Mid1000(quote') > 1000 * center_price
              /\ direction' = "UP" =>
                    NearestTick(center_price', center_price * (100 + GridSpacing))
              /\ direction' = "DOWN" =>
                    NearestTick(center_price', center_price * (100 - GridSpacing))
        /\ grid_moves_count' - grid_moves_count \in {0, 1}
        /\ grid_moves_count' <= polls' ]_vars

\* C34 witness: a poll answered a mid price of twice the center, and the
\* UP move it started has moved the center by one step.
C34_FarBreakthroughOneStep ==
    /\ pc = "move_cancel"
    /\ direction = "UP"
    /\ polls = 1
    /\ quote[1] + quote[2] = 2 * (market[1] + market[2])
    /\ 200 * center_price = (100 + GridSpacing) * (market[1] + market[2])

\* A poll step whose fetch of the bid/ask snapshot fails (the check has
\* no snapshot) or answers an unusable snapshot.
BadPoll ==
    /\ pc = "loop"
    /\ polls' = polls + 1
    /\ ~ValidQuote(quote')

\* C35: a poll whose snapshot is unusable (a price <= 0, bid >= ask) or
\* whose fetch fails changes nothing of the grid, the orders, the tasks
\* and the run's end and raises nothing: the loop goes on to its next
\* iteration, with the breakthrough check still enabled.
C35_BadPollChangesNothing ==
    [][ BadPoll =>
           /\ pc' = "gate"
           /\ UNCHANGED <<config_vars, grid_vars, move_vars, end_vars, init_vars,
                          result, raised, tasks, book, next_id, inbox>> ]_vars

\* C35 witness: the fetch of the first poll failed, and the second poll
\* has found a breakthrough and started the move.
C35_PolledAgainAfterFailure ==
    /\ pc = "move_cancel"
    /\ polls = 2
    /\ faults = 1
    /\ fills = 0
    /\ success_count = Len(grid_levels)
    /\ Cardinality(DOMAIN active_grid_orders) = Len(grid_levels)
    /\ result.success
    /\ grid_moves_count = 0

\* C36: the strategy's cancellation is observed between iterations of the
\* loop only: an edge-shift that has begun its cancel step goes on to its
\* placement step and ends, the loop being back at its price gate, before
\* run() leaves the loop and the shutdown begins.
C36_ShiftCompletesBeforeShutdown ==
    [][ (pc \in {"move_cancel", "move_place"}) =>
            pc' \in {"move_cancel", "move_place", "gate"} ]_vars

\* The orders of active_grid_orders that the exchange has filled: they no
\* longer rest on the exchange.
FilledUnhandled == {id \in DOMAIN active_grid_orders : id \notin DOMAIN book}

\* C37: every order the bot placed and the exchange filled is handled in
\* the end, however the FILLED notification and the placement call's
\* return are ordered: while run() keeps running, from some point on no
\* filled order is left in active_grid_orders and grid_trades_count has
\* counted every fill.
C37_EveryFillHandled ==
    []~RunEnded =>
        <>[](FilledUnhandled = {} /\ grid_trades_count = fills)

\* C38: the order an edge-shift adds is the outermost one: when the shift
\* sends it, the new sell of an UP shift is priced strictly above, and the
\* new buy of a DOWN shift strictly below, every order of
\* active_grid_orders, whatever its side.
C38_ShiftAddsOutermost ==
    [][ (pc # "move_place" /\ pc' = "move_place") =>
           \A id \in DOMAIN active_grid_orders' :
               IF direction' = "UP"
               THEN new_level'.price > active_grid_orders'[id].price
               ELSE new_level'.price < active_grid_orders'[id].price ]_vars

\* C39: center_price and grid_moves_count change only together with the
\* ladder: a reposition that ends having cancelled no order and added none
\* has counted no move, and has not moved the center.
C39_MoveOnlyWithLadder ==
    [][ (ShiftEnds /\ cancelled_count' = 0 /\ added_count' = 0) =>
            /\ grid_moves_count' = grid_moves_count
            /\ pc = "loop" => center_price' = center_price ]_vars

=============================================================================
